---- MODULE Spec2Model ----
(***************************************************************************)
(* Wordle solver: the letter-feedback codec, the feedback comparator, the  *)
(* all-pairs pattern matrix and the candidate-set resolver of              *)
(* src/src/wordle.rs and src/src/solver/mod.rs.                            *)
(*                                                                         *)
(* Positions are 1..NLETTER here and 0..NLETTER-1 in the source; word and  *)
(* candidate indices are 0-based as in the source.                         *)
(***************************************************************************)
EXTENDS Integers, Sequences, FiniteSets, TLC

VARIABLES
    \* the comparator's inputs and result
    cmpSecret, cmpGuess, cmpResult, cmpDone,
    \* the codec's inputs, its current status array and code, and its step
    cdInStatus, cdInCode, cdStatus, cdCode, cdStep,
    \* Solver: its fields, and whether Solver::new has built the matrix
    words, priors, mappings, built,
    \* create_mappings: how often each cell of the matrix has been written
    visits,
    \* the caller's guess history and the last query it made of the Solver
    \* and the candidate list it holds
    guesses, callerRemaining, lastCall,
    \* App: exit, the parent token (cancelled or not), the stored child
    \* token, the child tokens issued (each cancelled or not), the action
    \* channel, the spawned tasks and the computation App.suggestions holds
    exit, token, child_token, issued, action_rx, tasks, suggestions,
    \* the key events read so far
    nKeys,
    \* App: the guesses behind cached candidates and evaluations, the cursor
    \* and the evaluations of the entered guesses; App.guesses is guesses and
    \* App.remaining_words is callerRemaining
    cached_guesses, selected_word, selected_letter, evaludations

varsCompare == << cmpSecret, cmpGuess, cmpResult, cmpDone >>

varsCodec == << cdInStatus, cdInCode, cdStatus, cdCode, cdStep >>

varsSolver == << words, priors, mappings, built, visits >>

varsCaller == << guesses, callerRemaining, lastCall >>

varsApp == << cached_guesses, selected_word, selected_letter, evaludations >>

varsTui == << exit, token, child_token, issued, action_rx, tasks, suggestions,
             nKeys, varsApp >>

vars == << varsCompare, varsCodec, varsSolver, varsCaller, varsTui >>

(***************************************************************************)
(* Program constants                                                       *)
(***************************************************************************)
NLETTER == 5

Absent == 0
Misplaced == 1
Correct == 2

LetterStatus == {Absent, Misplaced, Correct}

\* Option<char>::None
None == "_"

\* wrapping u8 arithmetic
U8(x) == x % 256

Positions == 1..NLETTER

(***************************************************************************)
(* Bounds                                                                  *)
(***************************************************************************)
\* number of distinct letters the exhaustive comparator inputs are drawn from
NumLetters == 3

Letters == <<"a", "b", "c", "d", "e">>

Alphabet == {Letters[i] : i \in 1..NumLetters}

\* every fully specified word over the alphabet
FullWords == [Positions -> Alphabet]

\* largest number of words of a vocabulary
MaxVocab == 3

\* largest prior weight of a word
MaxPrior == 1

\* the words vocabularies are made of (solver/mod.rs tests, wordle.rs tests)
slate == <<"s", "l", "a", "t", "e">>
plate == <<"p", "l", "a", "t", "e">>
water == <<"w", "a", "t", "e", "r">>
goose == <<"g", "o", "o", "s", "e">>

WordPool == {slate, plate, water, goose}

\* largest number of guesses of a history
MaxGuesses == 2

(***************************************************************************)
(* wordle.rs: Word::compare                                                *)
(***************************************************************************)
\* first pass: the positions whose guessed char differs from the word's
RemainingPositions(self, guess) ==
    SelectSeq([i \in Positions |-> i], LAMBDA i : guess[i] # self[i])

\* remaining_positions.iter().find(|word_pos| guess_letter == word[*word_pos])
\* 0 when nothing is found
FindWordPos(remaining, word, guess_letter) ==
    LET hits == {k \in 1..Len(remaining) : guess_letter = word[remaining[k]]}
    IN  IF hits = {} THEN 0
        ELSE remaining[CHOOSE k \in hits : \A m \in hits : k <= m]

RECURSIVE SecondPassAll(_, _, _, _, _)
SecondPassAll(k, remaining, guess, word, result) ==
    IF k > Len(remaining) THEN result
    ELSE LET pos == remaining[k]
             word_pos == FindWordPos([i \in Positions |-> i], word, guess[pos])
         IN  IF word_pos # 0
             THEN SecondPassAll(k + 1, remaining, guess,
                                [word EXCEPT ![word_pos] = None],
                                [result EXCEPT ![pos] = Misplaced])
             ELSE SecondPassAll(k + 1, remaining, guess, word, result)

RECURSIVE SecondPassNoConsume(_, _, _, _, _)
SecondPassNoConsume(k, remaining, guess, word, result) ==
    IF k > Len(remaining) THEN result
    ELSE LET pos == remaining[k]
             word_pos == FindWordPos(remaining, word, guess[pos])
         IN  IF word_pos # 0
             THEN SecondPassNoConsume(k + 1, remaining, guess, word,
                                      [result EXCEPT ![pos] = Misplaced])
             ELSE SecondPassNoConsume(k + 1, remaining, guess, word, result)

\* second pass: for &pos in &remaining_positions { ... }
RECURSIVE SecondPass(_, _, _, _, _)
SecondPass(k, remaining, guess, word, result) ==
    IF k > Len(remaining) THEN result
    ELSE LET pos == remaining[k]
             word_pos == FindWordPos(remaining, word, guess[pos])
         IN  IF word_pos # 0
             THEN SecondPass(k + 1, remaining, guess,
                             [word EXCEPT ![word_pos] = None],
                             [result EXCEPT ![pos] = Misplaced])
             ELSE SecondPass(k + 1, remaining, guess, word, result)

FirstPass(self, guess) ==
    [i \in Positions |-> IF guess[i] = self[i] THEN Correct ELSE Absent]

\* mutant: the search for a matching letter runs over every position of the
\* word, the Correct ones included
compare_SearchAll(self, guess) ==
    SecondPassAll(1, RemainingPositions(self, guess), guess, self,
                  FirstPass(self, guess))

\* mutant: a matched letter of the word is not consumed
compare_NoConsume(self, guess) ==
    SecondPassNoConsume(1, RemainingPositions(self, guess), guess, self,
                        FirstPass(self, guess))

\* self is the secret word
compare(self, guess) ==
    SecondPass(1, RemainingPositions(self, guess), guess, self,
               FirstPass(self, guess))

\* Word::count_char
count_char(word, char) == Cardinality({i \in Positions : word[i] = char})

(***************************************************************************)
(* wordle.rs: encode_status / decode_status, in u8 arithmetic              *)
(***************************************************************************)
\* the 3^NLETTER status codes, 0..=242
StatusCodes == 0..(3 ^ NLETTER - 1)

StatusArrays == [Positions -> LetterStatus]

RECURSIVE SumU8(_, _)
SumU8(terms, k) ==
    IF k = 0 THEN 0 ELSE U8(SumU8(terms, k - 1) + terms[k])

\* mutant: the power is taken of the 1-based position
encode_status_OffByOne(status) ==
    SumU8([i \in Positions |-> U8(U8(3 ^ i) * status[i])], NLETTER)

\* .map(|(i, x)| 3_u8.pow(i as u32) * *x as u8).sum()
encode_status(status) ==
    SumU8([i \in Positions |-> U8(U8(3 ^ (i - 1)) * status[i])], NLETTER)

\* value = encoded / 3_u8.pow(i) % 3; the match on value maps 0, 1, 2 to
\* Absent, Misplaced, Correct
decode_status(encoded) ==
    [i \in Positions |-> (encoded \div U8(3 ^ (i - 1))) % 3]

(***************************************************************************)
(* solver/mod.rs: Solver { words, priors, mappings } and create_mappings.   *)
(* The three fields are functions over the word indices 0..V-1.            *)
(***************************************************************************)
NWords(ws) == Cardinality(DOMAIN ws)

\* mutant: the roles of the row and the column word are exchanged
create_mappings_Transposed(ws) ==
    [i \in DOMAIN ws |->
        [j \in DOMAIN ws |-> encode_status(compare(ws[i], ws[j]))]]

\* mutant: a word is not compared with itself, the cell keeps its zero
create_mappings_OffDiagonal(ws) ==
    [i \in DOMAIN ws |->
        [j \in DOMAIN ws |->
            IF i = j THEN 0 ELSE encode_status(compare(ws[j], ws[i]))]]

\* Zip::indexed(&mut mappings).par_for_each(|(i, j), val|
\*     *val = encode_status(&words[j].compare(&words[i])))
create_mappings(ws) ==
    [i \in DOMAIN ws |->
        [j \in DOMAIN ws |-> encode_status(compare(ws[j], ws[i]))]]

\* the vocabularies: every list of 1..MaxVocab distinct words of the pool
Vocabularies ==
    UNION {{ws \in [0..(n - 1) -> WordPool] :
               \A i, j \in 0..(n - 1) : i # j => ws[i] # ws[j]}
           : n \in 1..MaxVocab}

PriorsFor(ws) == [DOMAIN ws -> 0..MaxPrior]

\* the vocabulary the queries are made against: water gives slate and plate
\* the same pattern, goose is not a word of it
SolverVocabularies ==
    {[i \in 0..2 |-> <<slate, plate, water>>[i + 1]]}

\* the priors the queries are made against: a word is a possible answer
\* (prior 1, as in tests::test_solver) or a guess only (prior 0)
PriorFlags(ws) == [DOMAIN ws -> {0, 1}]

(***************************************************************************)
(* solver/mod.rs: the queries of a built Solver.  words, priors and        *)
(* mappings are the fields of self.                                        *)
(***************************************************************************)
Range(seq) == {seq[k] : k \in 1..Len(seq)}

Min(S) == CHOOSE m \in S : \A x \in S : m <= x

\* the elements of a set of indices in increasing order
RECURSIVE Ascending(_)
Ascending(S) ==
    IF S = {} THEN <<>> ELSE <<Min(S)>> \o Ascending(S \ {Min(S)})

\* the orders in which a HashSet may yield its elements: std's RandomState
\* keys every HashSet differently, so every order is possible
IterationOrders(S) ==
    {f \in [1..Cardinality(S) -> S] :
        \A a, b \in 1..Cardinality(S) : a # b => f[a] # f[b]}

\* self.words.iter().position(|&r| r == word): -1 stands for None
position(word) ==
    IF \E i \in DOMAIN words : words[i] = word
    THEN Min({i \in DOMAIN words : words[i] = word})
    ELSE -1

\* Solver::is_valid_guess
is_valid_guess(word) == \E i \in DOMAIN words : words[i] = word

\* Solver::get_frequent_word_idx
get_frequent_word_idx == Ascending({i \in DOMAIN priors : priors[i] > 0})

\* the outcomes of a call: a returned value or a panic
Ok(v) == [kind |-> "ok", val |-> v, msg |-> ""]
Panic(m) == [kind |-> "panic", val |-> <<>>, msg |-> m]

\* the row of a guess filtered by its status:
\* self.mappings.row(id).iter().enumerate().filter(|(_, &x)| x == g.status)
RowMatches(g) ==
    {i \in DOMAIN words : mappings[position(g.word)][i] = g.status}

\* .reduce(|a, b| a.intersection(&b).cloned().collect())
RECURSIVE ReduceIntersection(_, _)
ReduceIntersection(gs, k) ==
    IF k = 1 THEN RowMatches(gs[1])
    ELSE ReduceIntersection(gs, k - 1) \cap RowMatches(gs[k])

\* mutant: the sets of the guesses are united
RECURSIVE ReduceUnion(_, _)
ReduceUnion(gs, k) ==
    IF k = 1 THEN RowMatches(gs[1])
    ELSE ReduceUnion(gs, k - 1) \cup RowMatches(gs[k])

get_remaining_words_idx_Union(gs) ==
    IF gs = <<>> THEN {Ok(get_frequent_word_idx)}
    ELSE IF \E k \in 1..Len(gs) : position(gs[k].word) = -1
         THEN {Panic("Not a valid guess")}
         ELSE {Ok(v) : v \in IterationOrders(
                   ReduceUnion(gs, Len(gs)) \cap Range(get_frequent_word_idx))}

\* mutant: the result is not intersected with the words of positive prior
get_remaining_words_idx_NoPrior(gs) ==
    IF gs = <<>> THEN {Ok(get_frequent_word_idx)}
    ELSE IF \E k \in 1..Len(gs) : position(gs[k].word) = -1
         THEN {Panic("Not a valid guess")}
         ELSE {Ok(v) : v \in IterationOrders(ReduceIntersection(gs, Len(gs)))}

\* mutant: a guess whose word is not in the vocabulary is skipped
get_remaining_words_idx_SkipUnknown(gs) ==
    LET known == SelectSeq(gs, LAMBDA g : position(g.word) # -1)
    IN  IF known = <<>> THEN {Ok(get_frequent_word_idx)}
        ELSE {Ok(v) : v \in IterationOrders(
                  ReduceIntersection(known, Len(known))
                      \cap Range(get_frequent_word_idx))}

\* Solver::get_remaining_words_idx: the set of its possible outcomes.  The
\* result is collected from the iteration of a HashSet intersection, in
\* whichever order that HashSet yields.
get_remaining_words_idx(gs) ==
    IF gs = <<>> THEN {Ok(get_frequent_word_idx)}
    ELSE IF \E k \in 1..Len(gs) : position(gs[k].word) = -1
         THEN {Panic("Not a valid guess")}
         ELSE {Ok(v) : v \in IterationOrders(
                   ReduceIntersection(gs, Len(gs))
                       \cap Range(get_frequent_word_idx))}

(***************************************************************************)
(* solver/mod.rs: histograms, entropy and the evaluation of a guess.       *)
(* A row of the histogram array is a function over the 243 status codes;   *)
(* the rows of an array are numbered from 1 here and from 0 in the source. *)
(* f32 values are fixed-point numbers, in millionths of a bit.             *)
(***************************************************************************)
RECURSIVE SumSeq(_, _)
SumSeq(terms, k) == IF k = 0 THEN 0 ELSE SumSeq(terms, k - 1) + terms[k]

\* one row of get_mapping_distribution: column id of the selected pattern
\* matrix, which holds the code of candidate remaining_words[id], adds
\* self.priors[id] to the bucket of that code (id counts from 0 in the
\* source, from 1 here)
DistributionRow(w, remaining_words) ==
    [k \in StatusCodes |->
        SumSeq([id \in 1..Len(remaining_words) |->
                   IF mappings[w][remaining_words[id]] = k
                   THEN priors[id - 1] ELSE 0],
               Len(remaining_words))]

\* Solver::get_mapping_distribution
get_mapping_distribution(allowed_words, remaining_words) ==
    [a \in 1..Len(allowed_words) |->
        DistributionRow(allowed_words[a], remaining_words)]

\* f32::log2 of the integers 1..16, in millionths
Log2Table ==
    <<0, 1000000, 1584963, 2000000, 2321928, 2584963, 2807355, 3000000,
      3169925, 3321928, 3459432, 3584963, 3700440, 3807355, 3906891, 4000000>>

Log2(n) == Log2Table[n]

\* entropy: sum over the buckets v # 0 of -p * log2(p) with p = v / sum,
\* which is (sum * log2(sum) - SUM v * log2(v)) / sum; the buckets of mass
\* 0 add nothing to either sum
entropy(x) ==
    LET codes == Ascending({k \in DOMAIN x : x[k] # 0})
        sum == SumSeq([k \in 1..Len(codes) |-> x[codes[k]]], Len(codes))
        vlogv == SumSeq([k \in 1..Len(codes) |->
                            x[codes[k]] * Log2(x[codes[k]])],
                        Len(codes))
    IN  IF sum = 0 THEN 0 ELSE (sum * Log2(sum) - vlogv) \div sum

\* get_group_size: the buckets of a row with a mass above 0.0
get_group_size(id, distributions) ==
    Cardinality({k \in StatusCodes : distributions[id][k] > 0})

\* Solver::get_max_group_size: the largest number of candidates with one code
get_max_group_size(word_id, remaining_words) ==
    LET freq(code) == Cardinality({id \in 1..Len(remaining_words) :
                          mappings[word_id][remaining_words[id]] = code})
        seen == {mappings[word_id][remaining_words[id]] :
                    id \in 1..Len(remaining_words)}
    IN  IF seen = {} THEN 0
        ELSE CHOOSE m \in {freq(c) : c \in seen} :
                 \A c \in seen : freq(c) <= m

\* mutant: the words with the pattern are counted, candidates or not
get_n_solutions_after_guess_AllWords(word_id, remaining_words, status) ==
    Cardinality({i \in DOMAIN words :
                    mappings[word_id][i] = encode_status(status)})

\* Solver::get_n_solutions_after_guess
get_n_solutions_after_guess(word_id, remaining_words, status) ==
    Cardinality(Range(remaining_words)
                    \cap {i \in DOMAIN words :
                              mappings[word_id][i] = encode_status(status)})

\* Option values
NoneOpt == [some |-> FALSE]
Some(v) == [some |-> TRUE, val |-> v]

\* f32 values: a finite fixed-point number, an infinity or NaN
Finite(v) == [class |-> "finite", val |-> v]
Infinity == [class |-> "inf", val |-> 0]
NegInfinity == [class |-> "-inf", val |-> 0]
NaN == [class |-> "nan", val |-> 0]

\* f32::log2(remaining_words.len() as f32 / x as f32)
RealBits(before, after) ==
    IF after = 0
    THEN (IF before = 0 THEN NaN ELSE Infinity)
    ELSE IF before = 0 THEN NegInfinity
    ELSE Finite(Log2(before) - Log2(after))

\* the GuessEvaluation of the word of index word_id
Evaluation(word, word_id, remaining_words, status) ==
    LET distributions == get_mapping_distribution(<<word_id>>, remaining_words)
        n_after ==
            IF status.some
            THEN Some(get_n_solutions_after_guess(word_id, remaining_words,
                                                  status.val))
            ELSE NoneOpt
        real_bits ==
            IF n_after.some
            THEN Some(RealBits(Len(remaining_words), n_after.val))
            ELSE NoneOpt
    IN  [word |-> word,
         expected_bits |-> entropy(distributions[1]),
         real_bits |-> real_bits,
         groups |-> get_group_size(1, distributions),
         max_group_size |-> get_max_group_size(word_id, remaining_words),
         n_remaining_before |-> Len(remaining_words),
         n_remaining_after |-> n_after,
         is_possible |-> word_id \in Range(remaining_words),
         prior |-> priors[word_id]]

\* mutant: a word that is not found is evaluated as the word of index 0
evalute_guess_DefaultWord(word, remaining_words, status) ==
    Ok(Evaluation(word, IF position(word) = -1 THEN 0 ELSE position(word),
                  remaining_words, status))

\* Solver::evalute_guess; status is an Option of a status array
evalute_guess(word, remaining_words, status) ==
    IF position(word) = -1 THEN Panic("Not a valid guess")
    ELSE Ok(Evaluation(word, position(word), remaining_words, status))

(***************************************************************************)
(* The comparator applied to every pair of fully specified words           *)
(***************************************************************************)
NoResult == [i \in Positions |-> Absent]

\* the components a specification does not exercise stay as constructed
IdleCompare ==
    /\ cmpSecret = [i \in Positions |-> None]
    /\ cmpGuess = [i \in Positions |-> None]
    /\ cmpResult = NoResult
    /\ cmpDone = FALSE

IdleCodec ==
    /\ cdInStatus = NoResult
    /\ cdInCode = 0
    /\ cdStatus = NoResult
    /\ cdCode = 0
    /\ cdStep = "idle"

IdleSolver ==
    /\ words = <<>>
    /\ priors = <<>>
    /\ mappings = <<>>
    /\ built = FALSE
    /\ visits = <<>>

NoCall == [op |-> "none"]

IdleCaller ==
    /\ guesses = <<>>
    /\ callerRemaining = <<>>
    /\ lastCall = NoCall

IdleApp ==
    /\ cached_guesses = <<>>
    /\ selected_word = 0
    /\ selected_letter = 0
    /\ evaludations = <<>>

IdleTui ==
    /\ IdleApp
    /\ exit = FALSE
    /\ token = FALSE
    /\ child_token = 0
    /\ issued = <<>>
    /\ action_rx = <<>>
    /\ tasks = <<>>
    /\ suggestions = 0
    /\ nKeys = 0

InitCompare ==
    /\ cmpSecret \in FullWords
    /\ cmpGuess \in FullWords
    /\ cmpResult = NoResult
    /\ cmpDone = FALSE
    /\ IdleCodec
    /\ IdleSolver
    /\ IdleCaller
    /\ IdleTui

Compare ==
    /\ ~cmpDone
    /\ cmpResult' = compare(cmpSecret, cmpGuess)
    /\ cmpDone' = TRUE
    /\ UNCHANGED << varsTui, cmpSecret, cmpGuess, varsCodec, varsSolver,
                    varsCaller >>

NextCompare == Compare

SpecCompare == InitCompare /\ [][NextCompare]_vars

\* the two-pass reference, by counting: a non-Correct guess position is
\* credited while fewer earlier non-Correct guess positions hold its letter
\* than non-Correct secret positions do
RefStatus(secret, guess, i) ==
    IF guess[i] = secret[i] THEN Correct
    ELSE LET free == {j \in Positions : guess[j] # secret[j]}
             earlier == Cardinality({j \in free : j < i /\ guess[j] = guess[i]})
             avail == Cardinality({j \in free : secret[j] = guess[i]})
         IN  IF earlier < avail THEN Misplaced ELSE Absent

\* C1: for every fully specified secret and guess, compare equals the
\* two-pass reference at every position
C1_CompareIsTwoPass ==
    cmpDone => \A i \in Positions :
                   cmpResult[i] = RefStatus(cmpSecret, cmpGuess, i)

\* a guess with a repeated letter of which one occurrence is Correct, one is
\* credited as Misplaced and one is left Absent
C1_Witness ==
    /\ cmpDone
    /\ \E i, j, k \in Positions :
          /\ cmpGuess[i] = cmpGuess[j] /\ cmpGuess[j] = cmpGuess[k]
          /\ cmpResult[i] = Correct
          /\ cmpResult[j] = Misplaced
          /\ cmpResult[k] = Absent

\* C2: for every letter the number of guess positions holding it that are
\* marked Correct or Misplaced is at most its number of occurrences in the
\* secret
C2_CreditAtMostOccurrences ==
    cmpDone => \A c \in Alphabet :
                   Cardinality({i \in Positions : cmpGuess[i] = c
                                                  /\ cmpResult[i] # Absent})
                       <= count_char(cmpSecret, c)

\* the guess holds a letter more often than the secret does, and the credit
\* reaches the secret's count exactly
C2_Witness ==
    /\ cmpDone
    /\ \E c \in Alphabet :
          /\ count_char(cmpGuess, c) > count_char(cmpSecret, c)
          /\ count_char(cmpSecret, c) > 0
          /\ Cardinality({i \in Positions : cmpGuess[i] = c
                                            /\ cmpResult[i] # Absent})
                 = count_char(cmpSecret, c)

(***************************************************************************)
(* The codec applied to every status array and to every status code, in    *)
(* both orders                                                             *)
(***************************************************************************)
InitCodec ==
    /\ \/ /\ cdInStatus \in StatusArrays
          /\ cdInCode = 0
          /\ cdStep = "status"
       \/ /\ cdInStatus = NoResult
          /\ cdInCode \in StatusCodes
          /\ cdStep = "code"
    /\ cdStatus = cdInStatus
    /\ cdCode = cdInCode
    /\ IdleCompare
    /\ IdleSolver
    /\ IdleCaller
    /\ IdleTui

Encode ==
    /\ cdStep \in {"status", "code_dec"}
    /\ cdCode' = encode_status(cdStatus)
    /\ cdStep' = IF cdStep = "status" THEN "status_enc" ELSE "code_dec_enc"
    /\ UNCHANGED << varsTui, cdInStatus, cdInCode, cdStatus, varsCompare,
                    varsSolver, varsCaller >>

Decode ==
    /\ cdStep \in {"code", "status_enc"}
    /\ cdStatus' = decode_status(cdCode)
    /\ cdStep' = IF cdStep = "code" THEN "code_dec" ELSE "status_enc_dec"
    /\ UNCHANGED << varsTui, cdInStatus, cdInCode, cdCode, varsCompare,
                    varsSolver, varsCaller >>

NextCodec == Encode \/ Decode

SpecCodec == InitCodec /\ [][NextCodec]_vars

\* the base-3 value of a status array, digit by digit, in unbounded integers
Base3Value(s) == s[1] + 3 * s[2] + 9 * s[3] + 27 * s[4] + 81 * s[5]

\* C3: encode_status gives the base-3 value, within 0..=242 (0 for
\* all-Absent, 242 for all-Correct); decode_status undoes encode_status on
\* every status array, and encode_status undoes decode_status on every code
C3_CodecInverse ==
    /\ cdStep \in {"status_enc", "status_enc_dec"} =>
          /\ cdCode = Base3Value(cdInStatus)
          /\ cdCode \in StatusCodes
          /\ (\A i \in Positions : cdInStatus[i] = Absent) => cdCode = 0
          /\ (\A i \in Positions : cdInStatus[i] = Correct) => cdCode = 242
    /\ cdStep = "status_enc_dec" => cdStatus = cdInStatus
    /\ cdStep = "code_dec" => cdStatus \in StatusArrays
    /\ cdStep = "code_dec_enc" => cdCode = cdInCode

\* the round trip of the all-Correct array through the code 242
C3_Witness ==
    /\ cdStep = "status_enc_dec"
    /\ \A i \in Positions : cdInStatus[i] = Correct
    /\ cdCode = 242
    /\ cdStatus = cdInStatus

(***************************************************************************)
(* Solver::new over every vocabulary and every prior vector                *)
(***************************************************************************)
InitMatrix ==
    /\ words \in Vocabularies
    /\ priors \in PriorsFor(words)
    /\ mappings = <<>>
    /\ built = FALSE
    /\ visits = <<>>
    /\ IdleCompare
    /\ IdleCodec
    /\ IdleCaller
    /\ IdleTui

\* Solver::new: the imported words and priors, and the matrix built from
\* the words
SolverNew ==
    /\ ~built
    /\ mappings' = create_mappings(words)
    /\ built' = TRUE
    /\ UNCHANGED << varsTui, words, priors, visits, varsCompare, varsCodec,
                    varsCaller >>

NextMatrix == SolverNew

SpecMatrix == InitMatrix /\ [][NextMatrix]_vars

\* the status code of the reference feedback for a guess against a secret
RefCode(secret, guess) ==
    Base3Value([i \in Positions |-> RefStatus(secret, guess, i)])

\* C4: after create_mappings the cell of row g and column s holds the code
\* of comparing the secret words[s] with the guess words[g]
C4_RowsAreGuesses ==
    built => \A g, s \in DOMAIN words :
                 mappings[g][s] = RefCode(words[s], words[g])

\* a built matrix with a pair of words whose two cells differ
C4_Witness ==
    /\ built
    /\ \E g, s \in DOMAIN words :
          /\ mappings[g][s] # mappings[s][g]
          /\ mappings[g][s] = RefCode(words[s], words[g])

\* C5: every diagonal entry of the matrix is 242, for every vocabulary,
\* those of one word included
C5_DiagonalAllCorrect ==
    built => \A i \in DOMAIN words : mappings[i][i] = 242

\* the 1x1 matrix of a vocabulary of one word
C5_Witness ==
    /\ built
    /\ NWords(words) = 1
    /\ mappings[0][0] = 242

(***************************************************************************)
(* A caller of a built Solver: it extends its guess history by a guess and *)
(* resolves the candidate set, as tests::test_remaining_words_idx does,    *)
(* and evaluates a word against the candidates it holds                    *)
(***************************************************************************)
\* the statuses a guess is entered with: the codes of its matrix row
GuessStatuses(word) ==
    IF is_valid_guess(word)
    THEN {mappings[position(word)][s] : s \in DOMAIN words}
    ELSE {0}

Init ==
    /\ words \in SolverVocabularies
    /\ priors \in PriorFlags(words)
    /\ mappings = create_mappings(words)
    /\ built = TRUE
    /\ visits = <<>>
    /\ guesses = <<>>
    /\ callerRemaining = <<>>
    /\ lastCall = NoCall
    /\ IdleCompare
    /\ IdleCodec
    /\ IdleTui

\* .expect("Not a valid guess") panicked: the caller unwinds and makes no
\* further call
Crashed == lastCall.op # "none" /\ lastCall.outcome.kind = "panic"

\* guesses.push(Guess::new(word, status));
\* solver.get_remaining_words_idx(&guesses)
PushGuess ==
    /\ ~Crashed
    /\ Len(guesses) < MaxGuesses
    /\ \E w \in WordPool : \E c \in GuessStatuses(w) :
          LET gs == Append(guesses, [word |-> w, status |-> c])
          IN  /\ guesses' = gs
              /\ \E r \in get_remaining_words_idx(gs) :
                    lastCall' = [op |-> "get_remaining_words_idx",
                                 guesses |-> gs, outcome |-> r]
    /\ UNCHANGED << varsTui, callerRemaining, varsSolver, varsCompare,
                    varsCodec >>

\* solver.get_remaining_words_idx(&guesses) on the history as it stands
GetRemainingWordsIdx ==
    /\ ~Crashed
    /\ \E r \in get_remaining_words_idx(guesses) :
          lastCall' = [op |-> "get_remaining_words_idx", guesses |-> guesses,
                       outcome |-> r]
    /\ UNCHANGED << varsTui, guesses, callerRemaining, varsSolver, varsCompare,
                    varsCodec >>

\* solver.evalute_guess(word, &remaining_words, status) with the candidates
\* the resolver has just returned; the status is None, as Solver::guess
\* passes, or the status the word is entered with
EvaluteGuess ==
    /\ lastCall.op = "get_remaining_words_idx"
    /\ lastCall.outcome.kind = "ok"
    /\ \E w \in WordPool :
          \E st \in {NoneOpt}
                      \cup {Some(decode_status(c)) : c \in GuessStatuses(w)} :
             lastCall' = [op |-> "evalute_guess",
                          word |-> w,
                          remaining_words |-> lastCall.outcome.val,
                          status |-> st,
                          outcome |-> evalute_guess(w, lastCall.outcome.val,
                                                    st)]
    /\ UNCHANGED << varsTui, guesses, callerRemaining, varsSolver, varsCompare,
                    varsCodec >>

Next == PushGuess \/ GetRemainingWordsIdx \/ EvaluteGuess

Spec == Init /\ [][Next]_vars

IsRemainingCall(call) == call.op = "get_remaining_words_idx"

AllInVocabulary(gs) ==
    \A k \in 1..Len(gs) : \E i \in DOMAIN words : words[i] = gs[k].word

IndexOf(word) == CHOOSE i \in DOMAIN words : words[i] = word

\* the candidate set the claim describes
RefRemaining(gs) ==
    {s \in DOMAIN words :
        /\ priors[s] > 0
        /\ \A k \in 1..Len(gs) :
              RefCode(words[s], gs[k].word) = gs[k].status}

\* C6: for a history of vocabulary words get_remaining_words_idx returns
\* exactly the indices of positive prior whose matrix cell equals the status
\* of every guess, each once; for the empty history, the words of positive
\* prior
C6_RemainingIsConsistentSet ==
    (IsRemainingCall(lastCall) /\ AllInVocabulary(lastCall.guesses)) =>
        /\ lastCall.outcome.kind = "ok"
        /\ Range(lastCall.outcome.val) = RefRemaining(lastCall.guesses)
        /\ Len(lastCall.outcome.val)
               = Cardinality(RefRemaining(lastCall.guesses))
        /\ \A s \in Range(lastCall.outcome.val) :
              \A k \in 1..Len(lastCall.guesses) :
                  mappings[IndexOf(lastCall.guesses[k].word)][s]
                      = lastCall.guesses[k].status
        /\ lastCall.guesses = <<>> =>
              Range(lastCall.outcome.val)
                  = {s \in DOMAIN words : priors[s] > 0}

\* two guesses resolved to one candidate while a word of prior zero that
\* matches both is left out
C6_Witness ==
    /\ IsRemainingCall(lastCall)
    /\ Len(lastCall.guesses) = 2
    /\ AllInVocabulary(lastCall.guesses)
    /\ lastCall.outcome.kind = "ok"
    /\ Len(lastCall.outcome.val) = 1
    /\ \E s \in DOMAIN words :
          /\ priors[s] = 0
          /\ \A k \in 1..2 :
                mappings[IndexOf(lastCall.guesses[k].word)][s]
                    = lastCall.guesses[k].status

IsPrefix(a, b) ==
    /\ Len(a) <= Len(b)
    /\ \A k \in 1..Len(a) : a[k] = b[k]

\* a resolved call followed by a resolved call on its history with a guess
\* appended
ResolvedAfterAppend ==
    /\ IsRemainingCall(lastCall)
    /\ IsRemainingCall(lastCall')
    /\ lastCall.outcome.kind = "ok"
    /\ lastCall'.outcome.kind = "ok"
    /\ IsPrefix(lastCall.guesses, lastCall'.guesses)

\* C7: at every history, the first guess on the empty history included, the
\* candidate set of the history extended by a guess is a subset of the
\* candidate set of the history, and no larger
C7_RemainingShrinks ==
    [][ResolvedAfterAppend =>
          /\ Range(lastCall'.outcome.val) \subseteq Range(lastCall.outcome.val)
          /\ Len(lastCall'.outcome.val) <= Len(lastCall.outcome.val)]_vars

\* a history of two guesses resolved to a non-empty candidate set smaller
\* than the set of words of positive prior, which the empty history gives
C7_Witness ==
    /\ IsRemainingCall(lastCall)
    /\ Len(lastCall.guesses) = 2
    /\ lastCall.guesses = guesses
    /\ lastCall.outcome.kind = "ok"
    /\ lastCall.outcome.val # <<>>
    /\ Len(lastCall.outcome.val) < Len(get_frequent_word_idx)

\* C9: two calls of get_remaining_words_idx with the same history return
\* the same indices in the same order
C9_RemainingDeterministic ==
    [][(/\ IsRemainingCall(lastCall)
        /\ IsRemainingCall(lastCall')
        /\ lastCall'.guesses = lastCall.guesses)
           => lastCall'.outcome = lastCall.outcome]_vars

\* the part of C9 the code keeps: the same indices, as a set
C9_SameSet ==
    [][(/\ IsRemainingCall(lastCall)
        /\ IsRemainingCall(lastCall')
        /\ lastCall'.guesses = lastCall.guesses)
           => /\ lastCall'.outcome.kind = lastCall.outcome.kind
              /\ Range(lastCall'.outcome.val) = Range(lastCall.outcome.val)]_vars

IsEvaluateCall(call) == call.op = "evalute_guess"

\* C8: resolving a history that holds a word outside the vocabulary, and
\* evaluating such a word, fail; neither returns a value
C8_UnknownWordFails ==
    /\ (IsRemainingCall(lastCall) /\ ~AllInVocabulary(lastCall.guesses)) =>
          /\ lastCall.outcome.kind = "panic"
          /\ lastCall.outcome.msg = "Not a valid guess"
    /\ (IsEvaluateCall(lastCall) /\ ~is_valid_guess(lastCall.word)) =>
          /\ lastCall.outcome.kind = "panic"
          /\ lastCall.outcome.msg = "Not a valid guess"

\* a history whose first word is in the vocabulary and whose second is not
\* has been resolved, and the call failed
C8_Witness ==
    /\ IsRemainingCall(lastCall)
    /\ Len(lastCall.guesses) = 2
    /\ is_valid_guess(lastCall.guesses[1].word)
    /\ ~is_valid_guess(lastCall.guesses[2].word)
    /\ lastCall.outcome.kind = "panic"

(***************************************************************************)
(* solver/mod.rs: the ranking of the vocabulary against a candidate list   *)
(***************************************************************************)
\* rank_guess: entropy + prior / 20. * penalty; the penalty is in tenths,
\* the entropy and the result in millionths
rank_guess(entropy_bits, prior, penalty, possible) ==
    IF ~possible THEN entropy_bits
    ELSE entropy_bits + (prior * penalty * 1000000) \div 200

\* indices.sort_by(|&a, &b| score(b).partial_cmp(&score(a)).unwrap()): the
\* sort is stable, so indices of equal score stay in increasing order
RECURSIVE SortByScore(_, _)
SortByScore(S, score) ==
    IF S = {} THEN <<>>
    ELSE LET best == {i \in S : \A j \in S : score[j] <= score[i]}
         IN  <<Min(best)>> \o SortByScore(S \ {Min(best)}, score)

\* distributions.map_axis(Axis(1), |x| entropy(&x)): the entropies of the
\* first k rows
RECURSIVE RowEntropies(_, _)
RowEntropies(distributions, k) ==
    IF k = 0 THEN <<>>
    ELSE Append(RowEntropies(distributions, k - 1), entropy(distributions[k]))

\* the body of Solver::guess after its early return
RankedWords(n, remaining_words, pentalty) ==
    LET is_in_remaining == [x \in DOMAIN words |-> x \in Range(remaining_words)]
        distributions ==
            get_mapping_distribution(Ascending(DOMAIN words), remaining_words)
        entropies == RowEntropies(distributions, Len(distributions))
        score == [i \in DOMAIN words |->
                     rank_guess(entropies[i + 1], priors[i], pentalty,
                                is_in_remaining[i])]
        indices == SortByScore(DOMAIN words, score)
    IN  [k \in 1..Min({n, Len(indices)}) |-> words[indices[k]]]

\* mutant: a single candidate is ranked like any other candidate list
guess_NoEarlyReturn(n, remaining_words, pentalty) ==
    Ok(RankedWords(n, remaining_words, pentalty))

\* Solver::guess
guess(n, remaining_words, pentalty) ==
    IF Len(remaining_words) = 1
    THEN Ok([k \in 1..1 |-> words[remaining_words[k]]])
    ELSE Ok(RankedWords(n, remaining_words, pentalty))

(***************************************************************************)
(* A caller that holds a candidate list and asks for the histograms of a   *)
(* list of allowed words, as tests::test_get_mapping_distribution_prior    *)
(* and tests::test_mapping_subset do                                       *)
(***************************************************************************)
\* the vocabularies of the spec's scenario, in two orders, and of
\* tests::test_solver
RankVocabularies ==
    {[i \in 0..2 |-> <<slate, plate, water>>[i + 1]],
     [i \in 0..2 |-> <<water, slate, plate>>[i + 1]],
     [i \in 0..2 |-> <<slate, water, goose>>[i + 1]]}

\* the lists of distinct word indices, in any order
IndexLists == UNION {IterationOrders(S) : S \in SUBSET DOMAIN words}

InitRank ==
    /\ words \in RankVocabularies
    /\ priors \in PriorsFor(words)
    /\ mappings = create_mappings(words)
    /\ built = TRUE
    /\ visits = <<>>
    /\ guesses = <<>>
    /\ callerRemaining \in IndexLists
    /\ lastCall = NoCall
    /\ IdleCompare
    /\ IdleCodec
    /\ IdleTui

\* self.get_mapping_distribution(&allowed_words, &remaining_words), the one
\* call the caller makes with its candidate list
GetMappingDistribution ==
    /\ lastCall = NoCall
    /\ \E allowed_words \in IndexLists \ {<<>>} :
          lastCall' = [op |-> "get_mapping_distribution",
                       allowed_words |-> allowed_words,
                       remaining_words |-> callerRemaining,
                       outcome |-> get_mapping_distribution(allowed_words,
                                                            callerRemaining)]
    /\ UNCHANGED << varsTui, guesses, callerRemaining, varsSolver, varsCompare,
                    varsCodec >>

\* the penalties of the callers: 0.0 and 10.0 in tests::test_step_penalty,
\* 0.1 in get_suggestions, in tenths
Penalties == {0, 1, 100}

\* solver.guess(n, &remaining_words, penalty), the one call the caller makes
\* with its candidate list
Guess ==
    /\ lastCall = NoCall
    /\ \E n \in 0..(NWords(words) + 1) : \E pentalty \in Penalties :
          lastCall' = [op |-> "guess",
                       n |-> n,
                       remaining_words |-> callerRemaining,
                       penalty |-> pentalty,
                       outcome |-> guess(n, callerRemaining, pentalty)]
    /\ UNCHANGED << varsTui, guesses, callerRemaining, varsSolver, varsCompare,
                    varsCodec >>

NextRank == GetMappingDistribution \/ Guess

SpecRank == InitRank /\ [][NextRank]_vars

IsDistributionCall(call) == call.op = "get_mapping_distribution"

\* the sum of the priors of a set of word indices
RECURSIVE SumPriors(_)
SumPriors(S) ==
    IF S = {} THEN 0 ELSE priors[Min(S)] + SumPriors(S \ {Min(S)})

\* C10: in every row of get_mapping_distribution the mass of bucket k is the
\* sum of the priors of the candidates whose pattern against the row's word
\* is k, whichever other allowed words the call evaluates
C10_BucketMassIsPriorSum ==
    IsDistributionCall(lastCall) =>
        \A a \in 1..Len(lastCall.allowed_words) : \A k \in StatusCodes :
            lastCall.outcome[a][k]
                = SumPriors({c \in Range(lastCall.remaining_words) :
                                mappings[lastCall.allowed_words[a]][c] = k})

\* the total of a histogram row; the buckets of mass 0 add nothing
RowSum(x) ==
    LET codes == Ascending({k \in DOMAIN x : x[k] # 0})
    IN  SumSeq([k \in 1..Len(codes) |-> x[codes[k]]], Len(codes))

\* C11: the buckets of every row of get_mapping_distribution add up to the
\* total prior of the candidates
C11_RowSumIsCandidateMass ==
    IsDistributionCall(lastCall) =>
        \A a \in 1..Len(lastCall.allowed_words) :
            RowSum(lastCall.outcome[a])
                = SumPriors(Range(lastCall.remaining_words))

\* the distinct patterns the candidates give against the word of index w
CandidateCodes(w, remaining_words) ==
    {mappings[w][c] : c \in Range(remaining_words)}

\* a candidate list as the resolver returns it: not empty, every candidate
\* of positive prior
ResolvedCandidates(remaining_words) ==
    /\ remaining_words # <<>>
    /\ \A c \in Range(remaining_words) : priors[c] > 0

UniformCandidates(remaining_words) ==
    \A c, d \in Range(remaining_words) : priors[c] = priors[d]

\* C12: the entropy of a histogram row is not negative; it is 0 exactly when
\* the candidates all give one pattern or there is one candidate; and with
\* uniformly weighted candidates a word that gives fewer patterns than
\* candidates has a lower entropy than a word that separates them all
C12_EntropyZeroIffOneOutcome ==
    (IsDistributionCall(lastCall)
        /\ ResolvedCandidates(lastCall.remaining_words)) =>
        LET C == lastCall.remaining_words
            H(a) == entropy(lastCall.outcome[a])
            n(a) == Cardinality(CandidateCodes(lastCall.allowed_words[a], C))
        IN  \A a \in 1..Len(lastCall.allowed_words) :
               /\ H(a) >= 0
               /\ H(a) = 0 <=> (n(a) = 1 \/ Len(C) = 1)
               /\ UniformCandidates(C) =>
                     \A b \in 1..Len(lastCall.allowed_words) :
                         (n(b) = Len(C) /\ n(a) < Len(C)) => H(a) < H(b)

IsGuessCall(call) == call.op = "guess"

\* the histogram of the word of index w the spec describes: the mass of a
\* bucket is the sum of the priors of the candidates that give its pattern
RefHistogram(w, remaining_words) ==
    [k \in StatusCodes |->
        SumPriors({c \in Range(remaining_words) : mappings[w][c] = k})]

\* the composite score of the word of index w: H(w), with the bonus
\* prior(w) / 20 * penalty when w is a candidate
RefScore(w, remaining_words, penalty) ==
    entropy(RefHistogram(w, remaining_words))
        + (IF w \in Range(remaining_words)
           THEN (priors[w] * penalty * 1000000) \div 200 ELSE 0)

\* C13: for two or more candidates guess returns min(n, V) distinct words of
\* the vocabulary in non-increasing order of composite score, and no word
\* left out has a higher score than a returned word
C13_GuessRanksByScore ==
    (IsGuessCall(lastCall)
        /\ Len(lastCall.remaining_words) >= 2
        /\ ResolvedCandidates(lastCall.remaining_words)) =>
        LET r == lastCall.outcome.val
            Score(word) == RefScore(IndexOf(word), lastCall.remaining_words,
                                    lastCall.penalty)
        IN  /\ lastCall.outcome.kind = "ok"
            /\ Len(r) = Min({lastCall.n, NWords(words)})
            /\ \A k \in 1..Len(r) : is_valid_guess(r[k])
            /\ \A k, l \in 1..Len(r) : k # l => r[k] # r[l]
            /\ \A k, l \in 1..Len(r) : k < l => Score(r[k]) >= Score(r[l])
            /\ \A i \in DOMAIN words : \A k \in 1..Len(r) :
                  words[i] \notin Range(r) => Score(words[i]) <= Score(r[k])

\* C14: with exactly one candidate guess returns that candidate alone, for
\* every requested number n > 0 and every penalty
C14_SingleCandidateIsReturned ==
    (IsGuessCall(lastCall)
        /\ Len(lastCall.remaining_words) = 1
        /\ lastCall.n > 0) =>
        lastCall.outcome = Ok(<<words[lastCall.remaining_words[1]]>>)

\* more words were requested than the vocabulary holds, and the single
\* candidate, which is not the first word of the vocabulary, came back alone
C14_Witness ==
    /\ IsGuessCall(lastCall)
    /\ Len(lastCall.remaining_words) = 1
    /\ lastCall.remaining_words[1] # 0
    /\ lastCall.n > NWords(words)
    /\ lastCall.penalty > 0
    /\ lastCall.outcome.kind = "ok"
    /\ lastCall.outcome.val = <<words[lastCall.remaining_words[1]]>>

\* C15: a request to rank against an empty candidate list fails; guess
\* returns no list of words for it
C15_EmptyCandidatesFail ==
    (IsGuessCall(lastCall)
        /\ lastCall.remaining_words = <<>>
        /\ lastCall.n > 0) =>
        lastCall.outcome.kind # "ok"

(***************************************************************************)
(* solver/data.rs and Solver::new: the engine built from the rows of the   *)
(* word list.  data holds the lines after the header line; a row is the    *)
(* word of its first cell and its second cell, which is a number, some     *)
(* other text, or missing.                                                 *)
(***************************************************************************)
\* N_LINES, 14855 in the source, scaled down
N_LINES == 2

ParsedCell(v) == [kind |-> "f32", val |-> v]
TextCell == [kind |-> "text", val |-> 0]
MissingCell == [kind |-> "missing", val |-> 0]

PriorCells == {ParsedCell(v) : v \in 0..MaxPrior} \cup {TextCell, MissingCell}

DataRows == [word : {slate, plate}, prior : PriorCells]

\* the word lists of up to N_LINES + 1 rows
DataFiles == UNION {[1..n -> DataRows] : n \in 0..(N_LINES + 1)}

\* Word::new(): no letter is set
EmptyWord == [i \in Positions |-> None]

\* a returned Err
Err(m) == [kind |-> "err", val |-> <<>>, msg |-> m]

\* the loop of import from row i (counted from 0) on: words[i] = ... is
\* out of bounds for i >= N_LINES, cells[1] is out of bounds for a row of
\* one cell, and a cell that does not parse returns the error
RECURSIVE ImportRows(_, _, _, _)
ImportRows(data, i, ws, ps) ==
    IF i = Len(data) THEN Ok([words |-> ws, priors |-> ps])
    ELSE IF i >= N_LINES THEN Panic("index out of bounds")
    ELSE IF data[i + 1].prior.kind = "missing"
         THEN Panic("index out of bounds")
    ELSE IF data[i + 1].prior.kind = "text" THEN Err("Parsing prior")
    ELSE ImportRows(data, i + 1,
                    [ws EXCEPT ![i] = data[i + 1].word],
                    [ps EXCEPT ![i] = data[i + 1].prior.val])

\* data::import
import(data) ==
    ImportRows(data, 0, [i \in 0..(N_LINES - 1) |-> EmptyWord],
               [i \in 0..(N_LINES - 1) |-> 0])

\* Solver::new: import().context("Error importing data")?, then the matrix
new(data) ==
    LET imported == import(data)
    IN  IF imported.kind = "ok"
        THEN Ok([words |-> imported.val.words,
                 priors |-> imported.val.priors,
                 mappings |-> create_mappings(imported.val.words)])
        ELSE IF imported.kind = "err" THEN Err("Error importing data")
        ELSE imported

InitImport ==
    /\ IdleSolver
    /\ IdleCaller
    /\ IdleCompare
    /\ IdleCodec
    /\ IdleTui

\* let solver = Solver::new() over a word list
SolverNewFromData ==
    /\ lastCall = NoCall
    /\ \E data \in DataFiles :
          LET r == new(data)
          IN  /\ lastCall' = [op |-> "Solver::new", data |-> data,
                              outcome |-> [kind |-> r.kind, msg |-> r.msg]]
              /\ IF r.kind = "ok"
                 THEN /\ words' = r.val.words
                      /\ priors' = r.val.priors
                      /\ mappings' = r.val.mappings
                      /\ built' = TRUE
                      /\ UNCHANGED visits
                 ELSE UNCHANGED varsSolver
    /\ UNCHANGED << varsTui, guesses, callerRemaining, varsCompare,
                    varsCodec >>

NextImport == SolverNewFromData

SpecImport == InitImport /\ [][NextImport]_vars

IsNewCall(call) == call.op = "Solver::new"

Malformed(data) ==
    \E k \in 1..Len(data) : data[k].prior.kind \in {"missing", "text"}

\* C16: for a word list that is malformed or has fewer or more rows than
\* N_LINES, Solver::new fails and no engine exists; an engine that was
\* returned holds no unfilled word
C16_ConstructionAllOrNothing ==
    IsNewCall(lastCall) =>
        /\ (Malformed(lastCall.data) \/ Len(lastCall.data) # N_LINES) =>
              (lastCall.outcome.kind # "ok" /\ ~built)
        /\ built => \A i \in DOMAIN words : words[i] # EmptyWord

\* the number of candidates that give the pattern k against the word of
\* index w
GroupMembers(w, remaining_words, k) ==
    Cardinality({id \in 1..Len(remaining_words) :
                    mappings[w][remaining_words[id]] = k})

\* C17: an evaluation reports as groups the number of distinct patterns the
\* candidates give against the word and as max_group_size the largest
\* number of candidates with one pattern, so that neither exceeds the number
\* of candidates and their product is at least that number
C17_GroupsAreDistinctCodes ==
    (IsEvaluateCall(lastCall) /\ lastCall.outcome.kind = "ok") =>
        LET C == lastCall.remaining_words
            w == IndexOf(lastCall.word)
            e == lastCall.outcome.val
        IN  /\ e.groups = Cardinality(CandidateCodes(w, C))
            /\ \A k \in StatusCodes : GroupMembers(w, C, k) <= e.max_group_size
            /\ C # <<>> => \E k \in StatusCodes :
                              GroupMembers(w, C, k) = e.max_group_size
            /\ e.groups <= Len(C)
            /\ e.max_group_size <= Len(C)
            /\ e.groups * e.max_group_size >= Len(C)

\* C18: an evaluation reports the number of candidates as
\* n_remaining_before; with a status it reports as n_remaining_after the
\* number of candidates whose pattern against the word is the code of that
\* status, which is no more than n_remaining_before, and as real_bits the
\* log2 of their ratio; without a status both are absent
C18_RemainingAfterIsBucketSize ==
    (IsEvaluateCall(lastCall) /\ lastCall.outcome.kind = "ok") =>
        LET C == lastCall.remaining_words
            w == IndexOf(lastCall.word)
            e == lastCall.outcome.val
            after == Cardinality({c \in Range(C) :
                        mappings[w][c] = Base3Value(lastCall.status.val)})
        IN  /\ e.n_remaining_before = Len(C)
            /\ lastCall.status.some =>
                  /\ e.n_remaining_after = Some(after)
                  /\ after <= e.n_remaining_before
                  /\ e.real_bits.some
                  /\ after > 0 =>
                        e.real_bits.val = Finite(Log2(Len(C)) - Log2(after))
                  /\ (after = 0 /\ Len(C) > 0) => e.real_bits.val = Infinity
            /\ ~lastCall.status.some =>
                  /\ ~e.n_remaining_after.some
                  /\ ~e.real_bits.some

\* water was evaluated against three candidates with the status it gets
\* from slate and plate: two candidates remain, log2(3 / 2) bits
C18_Witness ==
    /\ IsEvaluateCall(lastCall)
    /\ lastCall.outcome.kind = "ok"
    /\ lastCall.status.some
    /\ lastCall.outcome.val.n_remaining_before = 3
    /\ lastCall.outcome.val.n_remaining_after = Some(2)
    /\ lastCall.outcome.val.real_bits = Some(Finite(584963))

(***************************************************************************)
(* tui: the update loop of App, the task that reads the keys and the tasks *)
(* that compute the suggestions.  A child token is named by its number in  *)
(* issued, which holds TRUE for a cancelled token; 0 is no token.  The     *)
(* task spawned with child token k is task k.  A message is its Action and *)
(* the task that sent it (0 for none); suggestions is the task whose       *)
(* result App.suggestions holds, 0 for the empty list of App::init.  The   *)
(* grid of guesses is not part of this model: whether an edit changes the  *)
(* valid guesses is a choice.                                              *)
(***************************************************************************)
\* the number of key events read
MaxKeys == 2

\* the number of words guess returns to get_suggestions, N_SUGGESTIONS at
\* most
MaxSuggested == 1

Msg(type, task) == [type |-> type, task |-> task]

\* App::init: the first GetSuggestions is in the channel
InitTui ==
    /\ exit = FALSE
    /\ token = FALSE
    /\ child_token = 0
    /\ issued = <<>>
    /\ action_rx = << Msg("GetSuggestions", 0) >>
    /\ tasks = <<>>
    /\ suggestions = 0
    /\ nKeys = 0
    /\ IdleApp
    /\ IdleSolver
    /\ IdleCaller
    /\ IdleCompare
    /\ IdleCodec

\* handle_events: a key is read and its Action sent; EnterChar stands for
\* the keys that edit the grid
KeyEvent ==
    /\ ~exit
    /\ nKeys < MaxKeys
    /\ nKeys' = nKeys + 1
    /\ \E a \in {"EnterChar", "Exit"} :
          action_rx' = Append(action_rx, Msg(a, 0))
    /\ UNCHANGED << exit, token, child_token, issued, tasks, suggestions,
                    varsApp, varsCompare, varsCodec,
                    varsSolver, varsCaller >>

\* the update loop has received the message at the head of the channel
Received(type) ==
    /\ ~exit
    /\ action_rx # <<>>
    /\ Head(action_rx).type = type

\* Action::Exit: self.token.cancel() cancels the parent and every child
HandleExit ==
    /\ Received("Exit")
    /\ token' = TRUE
    /\ issued' = [k \in 1..Len(issued) |-> TRUE]
    /\ exit' = TRUE
    /\ action_rx' = Tail(action_rx)
    /\ UNCHANGED << child_token, tasks, suggestions, nKeys,
                    varsApp, varsCompare, varsCodec,
                    varsSolver, varsCaller >>

\* Action::EnterChar, DeleteChar, ToggleStatus: the grid is edited and
\* UpdateGuesses is sent
HandleEnterChar ==
    /\ Received("EnterChar")
    /\ action_rx' = Append(Tail(action_rx), Msg("UpdateGuesses", 0))
    /\ UNCHANGED << exit, token, child_token, issued, tasks, suggestions,
                    nKeys, varsApp, varsCompare, varsCodec,
                    varsSolver, varsCaller >>

\* Action::UpdateGuesses: update_guesses sends GetSuggestions when the valid
\* guesses differ from the cached ones
HandleUpdateGuesses ==
    /\ Received("UpdateGuesses")
    /\ \E changed \in BOOLEAN :
          action_rx' = IF changed
                       THEN Append(Tail(action_rx), Msg("GetSuggestions", 0))
                       ELSE Tail(action_rx)
    /\ UNCHANGED << exit, token, child_token, issued, tasks, suggestions,
                    nKeys, varsApp, varsCompare, varsCodec,
                    varsSolver, varsCaller >>

\* mutant: the stored child token is dropped without being cancelled
CancelStored_Dropped(tokens, stored) == tokens

\* if let Some(token) = self.child_token.take() { token.cancel(); }
CancelStored(tokens, stored) ==
    IF stored = 0 THEN tokens ELSE [tokens EXCEPT ![stored] = TRUE]

\* Action::GetSuggestions: the stored child token is cancelled, a new child
\* of the parent token is stored and a task is spawned with it
HandleGetSuggestions ==
    /\ Received("GetSuggestions")
    /\ issued' = Append(CancelStored(issued, child_token), token)
    /\ child_token' = Len(issued) + 1
    /\ tasks' = Append(tasks, [pc |-> "select", result |-> FALSE, left |-> 0])
    /\ action_rx' = Tail(action_rx)
    /\ UNCHANGED << exit, token, suggestions, nKeys,
                    varsApp, varsCompare, varsCodec,
                    varsSolver, varsCaller >>

\* Action::UpdateSuggestions: self.suggestions = suggestions
HandleUpdateSuggestions ==
    /\ Received("UpdateSuggestions")
    /\ suggestions' = Head(action_rx).task
    /\ action_rx' = Tail(action_rx)
    /\ UNCHANGED << exit, token, child_token, issued, tasks, nKeys,
                    varsApp, varsCompare, varsCodec,
                    varsSolver, varsCaller >>

\* the task's select, biased: None if the token is cancelled, otherwise
\* get_suggestions is polled; it has no await and runs to its end once it
\* has started, whatever happens to the token meanwhile
TaskSelect(k) ==
    /\ tasks[k].pc = "select"
    /\ tasks' = [tasks EXCEPT ![k].pc = IF issued[k] THEN "check" ELSE "guess"]
    /\ UNCHANGED << exit, token, child_token, issued, action_rx, suggestions,
                    nKeys, varsApp, varsCompare, varsCodec,
                    varsSolver, varsCaller >>

\* get_suggestions: solver.guess(N_SUGGESTIONS, &remaining_words, penalty)
TaskGuess(k) ==
    /\ tasks[k].pc = "guess"
    /\ tasks' = [tasks EXCEPT ![k].pc = "evaluate", ![k].left = MaxSuggested]
    /\ UNCHANGED << exit, token, child_token, issued, action_rx, suggestions,
                    nKeys, varsApp, varsCompare, varsCodec,
                    varsSolver, varsCaller >>

\* get_suggestions: .map(|w| solver.evalute_guess(w, ..)) for the next of the
\* ranked words; after the last the select gives Some
TaskEvaluate(k) ==
    /\ tasks[k].pc = "evaluate"
    /\ tasks' = [tasks EXCEPT ![k] =
                    IF tasks[k].left = 1
                    THEN [pc |-> "check", result |-> TRUE, left |-> 0]
                    ELSE [@ EXCEPT !.left = @ - 1]]
    /\ UNCHANGED << exit, token, child_token, issued, action_rx, suggestions,
                    nKeys, varsApp, varsCompare, varsCodec,
                    varsSolver, varsCaller >>

\* if !child.is_cancelled() { if let Some(suggestions) = suggestions
TaskCheck(k) ==
    /\ tasks[k].pc = "check"
    /\ tasks' = [tasks EXCEPT ![k].pc =
                    IF ~issued[k] /\ tasks[k].result THEN "send" ELSE "done"]
    /\ UNCHANGED << exit, token, child_token, issued, action_rx, suggestions,
                    nKeys, varsApp, varsCompare, varsCodec,
                    varsSolver, varsCaller >>

\* tx.send(Some(Action::UpdateSuggestions(suggestions)))
TaskSend(k) ==
    /\ tasks[k].pc = "send"
    /\ action_rx' = Append(action_rx, Msg("UpdateSuggestions", k))
    /\ tasks' = [tasks EXCEPT ![k].pc = "done"]
    /\ UNCHANGED << exit, token, child_token, issued, suggestions, nKeys,
                    varsApp, varsCompare, varsCodec,
                    varsSolver, varsCaller >>

NextTui ==
    \/ KeyEvent
    \/ HandleExit
    \/ HandleEnterChar
    \/ HandleUpdateGuesses
    \/ HandleGetSuggestions
    \/ HandleUpdateSuggestions
    \/ \E k \in 1..Len(tasks) : TaskSelect(k)
    \/ \E k \in 1..Len(tasks) : TaskGuess(k)
    \/ \E k \in 1..Len(tasks) : TaskEvaluate(k)
    \/ \E k \in 1..Len(tasks) : TaskCheck(k)
    \/ \E k \in 1..Len(tasks) : TaskSend(k)

SpecTui == InitTui /\ [][NextTui]_vars

\* C19: whenever UpdateSuggestions assigns App.suggestions, the computation
\* that produced the value is the current one: its child token is the
\* stored one and is not cancelled
C19_OnlyCurrentResultApplied ==
    [][suggestions' # suggestions =>
          (child_token = suggestions' /\ ~issued[suggestions'])]_vars

\* the child tokens that are not cancelled
LiveChildren == {k \in 1..Len(issued) : ~issued[k]}

\* C20: at most one child token issued by the App is not cancelled, and it
\* is the stored one, issued for the most recent GetSuggestions
C20_OneLiveChild ==
    /\ Cardinality(LiveChildren) <= 1
    /\ \A k \in LiveChildren : k = Len(issued) /\ child_token = k

\* a second GetSuggestions was processed: the first child token is
\* cancelled and the second, the stored one, is not
C20_Witness ==
    /\ Len(issued) >= 2
    /\ issued[1]
    /\ child_token = Len(issued)
    /\ LiveChildren = {Len(issued)}

(***************************************************************************)
(* wordle.rs: Word::is_valid, the rule-based filter, applied to the words  *)
(* of the tests of wordle.rs and every status code                         *)
(***************************************************************************)
esses == <<"e", "s", "s", "e", "s">>
reede == <<"r", "e", "e", "d", "e">>
least == <<"l", "e", "a", "s", "t">>
songs == <<"s", "o", "n", "g", "s">>

\* the words of the doc tests and unit tests of wordle.rs
ValidWords == WordPool \cup {esses, reede, least, songs}

\* Guess::from_word
from_word(word, status) == [word |-> word, status |-> encode_status(status)]

\* Guess::remove_absent: the guessed word without its Absent letters
remove_absent(g) ==
    LET status == decode_status(g.status)
    IN  [i \in Positions |-> IF status[i] = Absent THEN None ELSE g.word[i]]

\* Word::has_letter_at_position
has_letter_at_position(self, char, pos) ==
    self[pos] # None /\ self[pos] = char

\* mutant: a Misplaced letter is not checked against its own position
is_valid_NoPosition(self, g) ==
    LET status == decode_status(g.status)
    IN  \A guess_pos \in Positions :
            LET guess_char == g.word[guess_pos]
                n_must == count_char(remove_absent(g), guess_char)
                n_is == count_char(self, guess_char)
            IN  guess_char # None =>
                CASE status[guess_pos] = Absent ->
                        IF n_must > 0
                        THEN ~has_letter_at_position(self, guess_char, guess_pos)
                             /\ ~(n_is > n_must)
                        ELSE ~(n_is > 0)
                  [] status[guess_pos] = Misplaced ->
                        ~(n_is = 0 \/ n_must > n_is)
                  [] status[guess_pos] = Correct ->
                        has_letter_at_position(self, guess_char, guess_pos)

\* Word::is_valid: each position of the guess that has a letter is tested in
\* turn and the first failing test returns false
is_valid(self, g) ==
    LET status == decode_status(g.status)
    IN  \A guess_pos \in Positions :
            LET guess_char == g.word[guess_pos]
                n_must == count_char(remove_absent(g), guess_char)
                n_is == count_char(self, guess_char)
            IN  guess_char # None =>
                CASE status[guess_pos] = Absent ->
                        IF n_must > 0
                        THEN ~has_letter_at_position(self, guess_char, guess_pos)
                             /\ ~(n_is > n_must)
                        ELSE ~(n_is > 0)
                  [] status[guess_pos] = Misplaced ->
                        ~has_letter_at_position(self, guess_char, guess_pos)
                        /\ ~(n_is = 0 \/ n_must > n_is)
                  [] status[guess_pos] = Correct ->
                        has_letter_at_position(self, guess_char, guess_pos)

InitValid ==
    /\ cmpSecret \in ValidWords
    /\ cmpGuess \in ValidWords
    /\ cmpResult = NoResult
    /\ cmpDone = FALSE
    /\ IdleCodec
    /\ IdleSolver
    /\ IdleCaller
    /\ IdleTui

\* one call self.is_valid(&Guess { word, status }) with any status code
IsValid ==
    /\ lastCall = NoCall
    /\ \E s \in StatusCodes :
          LET g == [word |-> cmpGuess, status |-> s]
          IN  lastCall' = [op |-> "is_valid", self |-> cmpSecret, guess |-> g,
                           outcome |-> is_valid(cmpSecret, g)]
    /\ UNCHANGED << varsCompare, varsCodec, varsSolver, guesses,
                    callerRemaining, varsTui >>

NextValid == IsValid

SpecValid == InitValid /\ [][NextValid]_vars

IsValidCall(call) == call.op = "is_valid"

\* the status codes the comparator produces for a guess against the secrets
\* at hand
FeedbackCodes(g) == {encode_status(compare(w, g)) : w \in ValidWords}

\* C28 as stated: for every fully specified word, guess and status code, the
\* rule-based filter accepts the word exactly when the comparator's feedback
\* for the guess against the word encodes to that code
C28_FilterAgreesWithComparator ==
    IsValidCall(lastCall) =>
        (lastCall.outcome
            <=> encode_status(compare(lastCall.self, lastCall.guess.word))
                    = lastCall.guess.status)

\* C28 as amended: for every status code that is the comparator's feedback
\* for the guess against some secret, the filter accepts the word exactly
\* when the word's own feedback encodes to that code; and a word is always
\* accepted against its own feedback
C28_FilterAgreesOnFeedback ==
    IsValidCall(lastCall) =>
        LET own == encode_status(compare(lastCall.self, lastCall.guess.word))
            s == lastCall.guess.status
        IN  /\ s \in FeedbackCodes(lastCall.guess.word)
                => (lastCall.outcome <=> own = s)
            /\ own = s => lastCall.outcome

\* a word accepted against another secret's feedback for a guess with a
\* repeated letter, and a word rejected against feedback of the comparator
C28_Witness ==
    /\ IsValidCall(lastCall)
    /\ lastCall.guess.status \in FeedbackCodes(lastCall.guess.word)
    /\ lastCall.guess.word = esses
    /\ lastCall.self = goose
    /\ lastCall.outcome
    /\ lastCall.guess.status # encode_status([i \in Positions |-> Absent])

(***************************************************************************)
(* tui: App::update on the grid of guesses.  App.guesses is guesses, a     *)
(* tuple of six Guess records numbered from 1 here and from 0 in the       *)
(* source; selected_word and selected_letter are 0-based as in the source. *)
(* A message is its Action and the Action's argument.  This specification  *)
(* follows the update loop and the task that reads the keys; the spawned   *)
(* suggestion tasks are followed in SpecTui.                               *)
(***************************************************************************)
\* guesses: [Guess; 6]
NGUESSES == 6

\* Guess::empty
empty == [word |-> [i \in Positions |-> None], status |-> 0]

EmptyGrid == [r \in 1..NGUESSES |-> empty]

\* Guess::get_status
get_status(g) == decode_status(g.status)

\* Guess::set_status
set_status(g, status) == [g EXCEPT !.status = encode_status(status)]

\* mutant: the status is written one position further on
update_status_NextPosition(g, status, pos) ==
    set_status(g, [get_status(g) EXCEPT ![(pos % NLETTER) + 1] = status])

\* Guess::update_status; pos is a position of 1..NLETTER
update_status(g, status, pos) ==
    set_status(g, [get_status(g) EXCEPT ![pos] = status])

\* App::move_right, move_left, move_up, move_down on the cursor
move_right(l) == IF l < 4 THEN l + 1 ELSE l
move_left(l) == IF l > 0 THEN l - 1 ELSE l
move_up(w) == IF w > 0 THEN w - 1 ELSE w

\* mutant: the cursor wraps to the first row
move_down_Wrapping(w) == IF w < NGUESSES - 1 THEN w + 1 ELSE 0

move_down(w) == IF w < NGUESSES - 1 THEN w + 1 ELSE w

\* App::set_letter: the grid after the letter (None to delete) is set at the
\* cursor; a deleted letter's status becomes Absent
set_letter(gs, w, l, letter) ==
    LET g == [gs[w + 1] EXCEPT !.word[l + 1] = letter]
    IN  [gs EXCEPT ![w + 1] =
            IF letter = None THEN update_status(g, Absent, l + 1) ELSE g]

\* match current { Absent => Misplaced, Misplaced => Correct,
\*                 Correct => Absent }
NextStatus(current) ==
    CASE current = Absent -> Misplaced
      [] current = Misplaced -> Correct
      [] current = Correct -> Absent

\* App::toggle_status: the grid after the toggle, when the slot has a letter
toggle_status(gs, w, l) ==
    [gs EXCEPT ![w + 1] =
        update_status(gs[w + 1], NextStatus(get_status(gs[w + 1])[l + 1]),
                      l + 1)]

\* mutant: every row with a vocabulary word is taken, also after a row
\* without one
ValidPrefix_NoBreak(gs) ==
    [r \in 1..NGUESSES |-> IF is_valid_guess(gs[r].word) THEN gs[r] ELSE empty]

\* update_guesses: tmp, the rows up to the first whose word is not a
\* vocabulary word, the others empty
ValidPrefix(gs) ==
    [r \in 1..NGUESSES |->
        IF \A q \in 1..r : is_valid_guess(gs[q].word) THEN gs[r] ELSE empty]

\* .filter(|guess| guess.word.chars.iter().all(|c| c.is_some()))
CompleteGuesses(tmp) ==
    SelectSeq(tmp, LAMBDA g : \A i \in Positions : g.word[i] # None)

\* update_evaluations: the evaluations of the first n guesses, one for every
\* order the resolver may return the candidates of guesses[0..i] in
RECURSIVE EvaluationsUpTo(_, _)
EvaluationsUpTo(gs, n) ==
    IF n = 0 THEN {<<>>}
    ELSE {Append(eva, evalute_guess(gs[n].word, r.val,
                                    Some(decode_status(gs[n].status))).val) :
             eva \in EvaluationsUpTo(gs, n - 1),
             r \in get_remaining_words_idx(SubSeq(gs, 1, n - 1))}

\* mutant: the last guess is not evaluated
update_evaluations_DropLast(gs) ==
    EvaluationsUpTo(gs, IF gs = <<>> THEN 0 ELSE Len(gs) - 1)

update_evaluations(gs) == EvaluationsUpTo(gs, Len(gs))

Act(type, arg) == [type |-> type, arg |-> arg]

\* the letters typed
KeyLetters == {"e"}

\* handle_key_event: the Option<Action> of a key, None for a tick and for
\* any other key
KeyActions ==
    {Act(t, 0) : t \in {"Exit", "MoveRight", "MoveLeft", "MoveDown", "MoveUp",
                        "Enter", "DeleteChar", "ToggleStatus", "None"}}
        \cup {Act("EnterChar", x) : x \in KeyLetters}

\* a row as typed: the first n letters of a word, with a status array
Typed(word, n, status) ==
    [word |-> [i \in Positions |-> IF i <= n THEN word[i] ELSE None],
     status |-> encode_status(status)]

\* the feedback of slate and of plate against the secret water
AgainstWater == <<Absent, Absent, Misplaced, Misplaced, Misplaced>>

\* grids the user has typed, all messages handled: slate and plate with
\* their feedback against water, the last row with or without its last
\* letter and that letter's status
TypedGrids ==
    LET open == [AgainstWater EXCEPT ![NLETTER] = Absent]
    IN  {[EmptyGrid EXCEPT ![1] = Typed(slate, 4, open)],
         [EmptyGrid EXCEPT ![1] = Typed(slate, 5, AgainstWater),
                           ![2] = Typed(plate, 4, open)],
         [EmptyGrid EXCEPT ![1] = Typed(slate, 5, AgainstWater),
                           ![2] = Typed(plate, 5, AgainstWater)]}

\* the rows of a grid that hold a letter
TypedRowCount(gs) ==
    Cardinality({r \in 1..NGUESSES : gs[r] # empty})

\* priors of the vocabulary: every word frequent, or all but one
AppPriors(ws) ==
    {[i \in DOMAIN ws |-> 1], [i \in DOMAIN ws |-> IF i = 1 THEN 0 ELSE 1]}

\* App::init, or a later state with a typed grid and every message handled:
\* the cursor is on the last letter typed or in the last row, and the
\* cache, the candidates and the evaluations are those update_guesses left
InitApp ==
    /\ words \in SolverVocabularies
    /\ priors \in AppPriors(words)
    /\ mappings = create_mappings(words)
    /\ built = TRUE
    /\ visits = <<>>
    /\ lastCall = NoCall
    /\ exit = FALSE
    /\ token = FALSE
    /\ nKeys = 0
    /\ \/ /\ guesses = EmptyGrid
          /\ selected_word = 0
          /\ selected_letter = 0
          /\ action_rx = << Act("GetSuggestions", <<>>) >>
          /\ child_token = 0
          /\ issued = <<>>
          /\ tasks = <<>>
          /\ suggestions = 0
       \/ /\ guesses \in TypedGrids
          /\ \/ /\ selected_word = TypedRowCount(guesses) - 1
                /\ selected_letter = 4
             \/ /\ selected_word = NGUESSES - 1
                /\ selected_letter = 4
          /\ action_rx = <<>>
          /\ child_token = 1
          /\ issued = << FALSE >>
          /\ tasks = << [pc |-> "done", result |-> TRUE, left |-> 0] >>
          /\ suggestions = 1
    /\ cached_guesses = ValidPrefix(guesses)
    /\ callerRemaining \in
          {r.val : r \in get_remaining_words_idx(CompleteGuesses(cached_guesses))}
    /\ evaludations \in update_evaluations(CompleteGuesses(cached_guesses))
    /\ IdleCompare
    /\ IdleCodec

\* handle_events: a key or a tick is read and its Option<Action> sent
AppKeyEvent ==
    /\ ~exit
    /\ nKeys < MaxKeys
    /\ nKeys' = nKeys + 1
    /\ \E a \in KeyActions : action_rx' = Append(action_rx, a)
    /\ UNCHANGED << exit, token, child_token, issued, tasks, suggestions,
                    varsApp, varsCompare, varsCodec, varsSolver, varsCaller >>

\* update(None): nothing changes
OnNone ==
    /\ Received("None")
    /\ action_rx' = Tail(action_rx)
    /\ UNCHANGED << exit, token, child_token, issued, tasks, suggestions,
                    nKeys, varsApp, varsCompare, varsCodec, varsSolver,
                    varsCaller >>

\* Action::MoveUp, MoveDown, MoveLeft, MoveRight
OnMove ==
    /\ \/ /\ Received("MoveUp")
          /\ selected_word' = move_up(selected_word)
          /\ UNCHANGED selected_letter
       \/ /\ Received("MoveDown")
          /\ selected_word' = move_down(selected_word)
          /\ UNCHANGED selected_letter
       \/ /\ Received("MoveLeft")
          /\ selected_letter' = move_left(selected_letter)
          /\ UNCHANGED selected_word
       \/ /\ Received("MoveRight")
          /\ selected_letter' = move_right(selected_letter)
          /\ UNCHANGED selected_word
    /\ action_rx' = Tail(action_rx)
    /\ UNCHANGED << exit, token, child_token, issued, tasks, suggestions,
                    nKeys, cached_guesses, evaludations, varsCompare,
                    varsCodec, varsSolver, varsCaller >>

\* Action::Enter: self.move_down(); self.selected_letter = 0
OnEnter ==
    /\ Received("Enter")
    /\ selected_word' = move_down(selected_word)
    /\ selected_letter' = 0
    /\ action_rx' = Tail(action_rx)
    /\ UNCHANGED << exit, token, child_token, issued, tasks, suggestions,
                    nKeys, cached_guesses, evaludations, varsCompare,
                    varsCodec, varsSolver, varsCaller >>

\* Action::EnterChar(x): set_letter(Some(x)), its UpdateGuesses is sent,
\* move_right
OnEnterChar ==
    /\ Received("EnterChar")
    /\ guesses' = set_letter(guesses, selected_word, selected_letter,
                             Head(action_rx).arg)
    /\ action_rx' = Append(Tail(action_rx), Act("UpdateGuesses", 0))
    /\ selected_letter' = move_right(selected_letter)
    /\ UNCHANGED << exit, token, child_token, issued, tasks, suggestions,
                    nKeys, cached_guesses, selected_word, evaludations,
                    callerRemaining, lastCall, varsCompare, varsCodec,
                    varsSolver >>

\* Action::DeleteChar: set_letter(None), its UpdateGuesses is sent,
\* move_left
OnDeleteChar ==
    /\ Received("DeleteChar")
    /\ guesses' = set_letter(guesses, selected_word, selected_letter, None)
    /\ action_rx' = Append(Tail(action_rx), Act("UpdateGuesses", 0))
    /\ selected_letter' = move_left(selected_letter)
    /\ UNCHANGED << exit, token, child_token, issued, tasks, suggestions,
                    nKeys, cached_guesses, selected_word, evaludations,
                    callerRemaining, lastCall, varsCompare, varsCodec,
                    varsSolver >>

\* Action::ToggleStatus: toggle_status and its result is sent, UpdateGuesses
\* when the slot at the cursor has a letter and None when it has not
OnToggleStatus ==
    /\ Received("ToggleStatus")
    /\ IF guesses[selected_word + 1].word[selected_letter + 1] # None
       THEN /\ guesses' = toggle_status(guesses, selected_word,
                                        selected_letter)
            /\ action_rx' = Append(Tail(action_rx), Act("UpdateGuesses", 0))
       ELSE /\ guesses' = guesses
            /\ action_rx' = Append(Tail(action_rx), Act("None", 0))
    /\ UNCHANGED << exit, token, child_token, issued, tasks, suggestions,
                    nKeys, varsApp, callerRemaining, lastCall, varsCompare,
                    varsCodec, varsSolver >>

\* Action::UpdateGuesses: update_guesses
OnUpdateGuesses ==
    /\ Received("UpdateGuesses")
    /\ LET tmp == ValidPrefix(guesses)
           complete == CompleteGuesses(tmp)
       IN  IF tmp # cached_guesses
           THEN /\ cached_guesses' = tmp
                /\ action_rx' = Append(Tail(action_rx),
                                       Act("GetSuggestions", complete))
                /\ \E r \in get_remaining_words_idx(complete) :
                      callerRemaining' = r.val
                /\ evaludations' \in update_evaluations(complete)
           ELSE /\ action_rx' = Tail(action_rx)
                /\ UNCHANGED << cached_guesses, callerRemaining,
                                evaludations >>
    /\ UNCHANGED << exit, token, child_token, issued, tasks, suggestions,
                    nKeys, selected_word, selected_letter, guesses, lastCall,
                    varsCompare, varsCodec, varsSolver >>

NextApp ==
    \/ AppKeyEvent
    \/ HandleExit
    \/ OnNone
    \/ OnMove
    \/ OnEnter
    \/ OnEnterChar
    \/ OnDeleteChar
    \/ OnToggleStatus
    \/ OnUpdateGuesses
    \/ HandleGetSuggestions

SpecApp == InitApp /\ [][NextApp]_vars

\* the update loop handles the message at the head of the channel
Processed(type) ==
    /\ ~exit
    /\ action_rx # <<>>
    /\ Head(action_rx).type = type
    /\ nKeys' = nKeys

\* everything of App but the cursor and the channel
AppButCursor ==
    << guesses, cached_guesses, callerRemaining, evaludations, suggestions,
       exit, token, child_token, issued, tasks >>

\* C29: the cursor stays in range, selected_letter in 0..4 and selected_word
\* in 0..5; the navigation actions move it by at most one step along one
\* axis and change nothing else, a None tick changes nothing, and Enter
\* moves one row down, staying in the last row, and sets selected_letter
\* to 0
C29_CursorStaysInGrid ==
    /\ [](selected_letter \in 0..(NLETTER - 1)
          /\ selected_word \in 0..(NGUESSES - 1))
    /\ [][(\E t \in {"MoveUp", "MoveDown", "MoveLeft", "MoveRight", "Enter",
                     "None"} : Processed(t))
             => /\ UNCHANGED AppButCursor
                /\ action_rx' = Tail(action_rx)]_vars
    /\ [][Processed("None") => UNCHANGED << selected_word, selected_letter >>]_vars
    /\ [][Processed("MoveUp")
             => /\ selected_word' = (IF selected_word = 0 THEN 0
                                     ELSE selected_word - 1)
                /\ UNCHANGED selected_letter]_vars
    /\ [][Processed("MoveDown")
             => /\ selected_word' = (IF selected_word = NGUESSES - 1
                                     THEN selected_word
                                     ELSE selected_word + 1)
                /\ UNCHANGED selected_letter]_vars
    /\ [][Processed("MoveLeft")
             => /\ selected_letter' = (IF selected_letter = 0 THEN 0
                                       ELSE selected_letter - 1)
                /\ UNCHANGED selected_word]_vars
    /\ [][Processed("MoveRight")
             => /\ selected_letter' = (IF selected_letter = NLETTER - 1
                                       THEN selected_letter
                                       ELSE selected_letter + 1)
                /\ UNCHANGED selected_word]_vars
    /\ [][Processed("Enter")
             => /\ selected_word' = (IF selected_word = NGUESSES - 1
                                     THEN selected_word
                                     ELSE selected_word + 1)
                /\ selected_letter' = 0]_vars

\* Enter was handled in the last row with the cursor on the last letter:
\* the cursor stays in the row and is on the first letter
C29_Witness ==
    /\ selected_word = NGUESSES - 1
    /\ selected_letter = 0
    /\ nKeys = 1
    /\ action_rx = <<>>
    /\ guesses # EmptyGrid

\* the slot at the cursor
CursorRow == selected_word + 1
CursorPos == selected_letter + 1

\* the rows but their status at one position are the same
SameButStatusAt(before, after, row, pos) ==
    /\ \A r \in 1..NGUESSES : r # row => after[r] = before[r]
    /\ after[row].word = before[row].word
    /\ \A p \in Positions \ {pos} :
          (after[row].status \div 3 ^ (p - 1)) % 3
              = (before[row].status \div 3 ^ (p - 1)) % 3

\* the last message of the channel
LastSent(q) == q[Len(q)]

\* C30: ToggleStatus on a slot with a letter changes only the status at the
\* cursor of the selected guess, from Absent to Misplaced to Correct to
\* Absent, and requests UpdateGuesses; on a slot without a letter it changes
\* nothing and requests no recomputation; every status code is in 0..=242
\* and deleting a letter sets the status of its position to Absent
C30_ToggleCyclesOneStatus ==
    /\ [](\A r \in 1..NGUESSES : guesses[r].status \in 0..242)
    /\ [][Processed("ToggleStatus") =>
            LET g == guesses[CursorRow]
                digit == (g.status \div 3 ^ (CursorPos - 1)) % 3
                digitAfter ==
                    (guesses'[CursorRow].status \div 3 ^ (CursorPos - 1)) % 3
            IN  IF g.word[CursorPos] # None
                THEN /\ SameButStatusAt(guesses, guesses', CursorRow, CursorPos)
                     /\ digitAfter = (digit + 1) % 3
                     /\ LastSent(action_rx').type = "UpdateGuesses"
                     /\ Len(action_rx') = Len(action_rx)
                ELSE /\ guesses' = guesses
                     /\ \A k \in 1..Len(action_rx') :
                           action_rx'[k].type = "UpdateGuesses"
                               => k < Len(action_rx)
                                  /\ action_rx'[k] = action_rx[k + 1]
                     /\ Len(action_rx') = Len(action_rx)]_vars
    /\ [][Processed("ToggleStatus")
             => UNCHANGED << cached_guesses, callerRemaining, evaludations,
                             suggestions, selected_word, selected_letter >>]_vars
    /\ [][Processed("DeleteChar") =>
            /\ SameButStatusAt(guesses,
                               [guesses' EXCEPT ![CursorRow].word[CursorPos]
                                    = guesses[CursorRow].word[CursorPos]],
                               CursorRow, CursorPos)
            /\ guesses'[CursorRow].word[CursorPos] = None
            /\ (guesses'[CursorRow].status \div 3 ^ (CursorPos - 1)) % 3
                   = Absent]_vars

\* a status was toggled from Misplaced to Correct: no row is typed with a
\* Correct status
C30_Witness ==
    /\ \E r \in 1..NGUESSES :
          /\ (guesses[r].status \div 3 ^ (NLETTER - 1)) % 3 = Correct
          /\ guesses[r].word[NLETTER] # None
    /\ action_rx # <<>>
    /\ LastSent(action_rx).type = "UpdateGuesses"

\* the number of leading rows whose words are vocabulary words
RefPrefixLen(gs) ==
    CHOOSE n \in 0..NGUESSES :
        /\ \A r \in 1..n : \E i \in DOMAIN words : words[i] = gs[r].word
        /\ n < NGUESSES => ~\E i \in DOMAIN words : words[i] = gs[n + 1].word

\* the valid-prefix snapshot: those rows with their statuses, padded with
\* empty guesses
RefSnapshot(gs) ==
    [r \in 1..NGUESSES |-> IF r <= RefPrefixLen(gs) THEN gs[r] ELSE empty]

\* C25: update_guesses sends GetSuggestions with the guesses of the snapshot
\* and recomputes cached_guesses, remaining_words and the evaluations exactly
\* when the valid-prefix snapshot differs from cached_guesses; when they are
\* the same nothing is sent and cached_guesses, remaining_words, the
\* evaluations and the suggestions stay as they are
C25_RecomputeIffSnapshotDiffers ==
    [][Processed("UpdateGuesses") =>
          LET snapshot == RefSnapshot(guesses)
              entered == SubSeq(snapshot, 1, RefPrefixLen(guesses))
          IN  IF snapshot # cached_guesses
              THEN /\ cached_guesses' = snapshot
                   /\ action_rx' = Append(Tail(action_rx),
                                          Act("GetSuggestions", entered))
                   /\ Range(callerRemaining') = RefRemaining(entered)
                   /\ Len(evaludations') = Len(entered)
                   /\ UNCHANGED << guesses, suggestions >>
              ELSE /\ action_rx' = Tail(action_rx)
                   /\ UNCHANGED << guesses, cached_guesses, callerRemaining,
                                   evaludations, suggestions, child_token,
                                   issued, tasks >>]_vars

\* the second row was completed to a vocabulary word and update_guesses has
\* requested the suggestions for both guesses
C25_Witness ==
    /\ action_rx # <<>>
    /\ LastSent(action_rx).type = "GetSuggestions"
    /\ Len(LastSent(action_rx).arg) = 2
    /\ nKeys > 0
    /\ cached_guesses = RefSnapshot(guesses)
    /\ Len(evaludations) = 2

\* the guesses of cached_guesses whose words are complete
CachedEntered ==
    SelectSeq(cached_guesses, LAMBDA g : \A i \in Positions : g.word[i] # None)

\* C27: after every handled action remaining_words holds, each once, the
\* candidates of the complete guesses of cached_guesses; the evaluations
\* have one entry per such guess, entry i counted before against the
\* candidates of the guesses before it and after with its own status, so
\* that each n_remaining_after is the next n_remaining_before and the last
\* is the length of remaining_words
C27_EvaluationsChain ==
    LET n == Len(CachedEntered)
    IN  /\ Range(callerRemaining) = RefRemaining(CachedEntered)
        /\ Len(callerRemaining) = Cardinality(RefRemaining(CachedEntered))
        /\ Len(evaludations) = n
        /\ \A i \in 1..n :
              /\ evaludations[i].word = CachedEntered[i].word
              /\ evaludations[i].n_remaining_before
                     = Cardinality(RefRemaining(SubSeq(CachedEntered, 1, i - 1)))
              /\ evaludations[i].n_remaining_after
                     = Some(Cardinality(RefRemaining(SubSeq(CachedEntered, 1, i))))
        /\ \A i \in 1..(n - 1) :
              evaludations[i].n_remaining_after
                  = Some(evaludations[i + 1].n_remaining_before)
        /\ n > 0 => evaludations[n].n_remaining_after
                        = Some(Len(callerRemaining))

\* a letter was deleted from the second of two guesses and update_guesses
\* has recomputed: one guess is cached, with one evaluation
C27_Witness ==
    /\ nKeys > 0
    /\ Len(CachedEntered) = 1
    /\ guesses[2].word[NLETTER] = None
    /\ guesses[2].word[1] # None
    /\ action_rx # <<>>
    /\ LastSent(action_rx).type = "GetSuggestions"
    /\ evaludations[1].n_remaining_after = Some(Len(callerRemaining))
    /\ Len(callerRemaining) > 0

\* task k makes an inner call in this step: the ranking call, or the
\* evaluation of one more word
InnerCall(k) ==
    /\ tasks[k].pc \in {"guess", "evaluate"}
    /\ tasks'[k] # tasks[k]

\* task k sends its result in this step
Emits(k) ==
    /\ Len(action_rx') > 0
    /\ Len(action_rx') = Len(action_rx) + 1
    /\ LastSent(action_rx') = Msg("UpdateSuggestions", k)

\* C22: once the child token of a computation is cancelled, the computation
\* starts no further ranking or evaluation call and does not send its result
C22_CancelledTaskStops ==
    [][\A k \in 1..Len(tasks) :
          issued[k] => (~InnerCall(k) /\ ~Emits(k))]_vars

\* the update loop and the tokio runtime are fair: a message in the channel
\* is received and handled, and a spawned task that can take a step takes
\* it; the keys are the user's and may stop
TaskStep(k) ==
    /\ k <= Len(tasks)
    /\ (TaskSelect(k) \/ TaskGuess(k) \/ TaskEvaluate(k) \/ TaskCheck(k)
            \/ TaskSend(k))

SpecTuiFair ==
    /\ SpecTui
    /\ WF_vars(HandleExit \/ HandleEnterChar \/ HandleUpdateGuesses
                   \/ HandleGetSuggestions \/ HandleUpdateSuggestions)
    /\ \A k \in 1..(MaxKeys + 1) : WF_vars(TaskStep(k))

\* C24: when the keys have stopped and Exit is not issued, App.suggestions
\* eventually holds the result of the computation spawned for the latest
\* GetSuggestions, the last task, and keeps it
C24_SuggestionsConverge ==
    <>[](exit \/ (tasks # <<>> /\ suggestions = Len(tasks)))

(***************************************************************************)
(* solver/mod.rs: create_mappings cell by cell.  Zip::indexed(&mut         *)
(* mappings).par_for_each hands every cell of the array, each once, to the *)
(* closure on some rayon worker; the cells are visited in any order.  The  *)
(* queries of the built Solver take &self; the caller makes one.           *)
(***************************************************************************)
\* Array::zeros((words.len(), words.len()))
zeros(ws) == [i \in DOMAIN ws |-> [j \in DOMAIN ws |-> 0]]

\* mutant: the closure compares the words the other way round
Cell_Transposed(ws, i, j) == encode_status(compare(ws[i], ws[j]))

\* the closure: encode_status(&words[j].compare(&words[i]))
Cell(ws, i, j) == encode_status(compare(ws[j], ws[i]))

InitBuild ==
    /\ words \in RankVocabularies
    /\ priors \in PriorFlags(words)
    /\ mappings = zeros(words)
    /\ visits = zeros(words)
    /\ built = FALSE
    /\ IdleCaller
    /\ IdleCompare
    /\ IdleCodec
    /\ IdleTui

\* a worker runs the closure on a cell that has not been visited
WriteCell ==
    /\ ~built
    /\ \E i, j \in DOMAIN words :
          /\ visits[i][j] = 0
          /\ mappings' = [mappings EXCEPT ![i][j] = Cell(words, i, j)]
          /\ visits' = [visits EXCEPT ![i][j] = @ + 1]
    /\ UNCHANGED << words, priors, built, varsCaller, varsCompare, varsCodec,
                    varsTui >>

\* par_for_each returns when every cell has been visited; Solver::new
\* returns the Solver
BuildDone ==
    /\ ~built
    /\ \A i, j \in DOMAIN words : visits[i][j] > 0
    /\ built' = TRUE
    /\ UNCHANGED << words, priors, mappings, visits, varsCaller, varsCompare,
                    varsCodec, varsTui >>

\* solver.get_remaining_words_idx(&guesses) with no guess or one guess
QueryRemaining ==
    /\ built
    /\ lastCall = NoCall
    /\ \E gs \in {<<>>} \cup {<<[word |-> w, status |-> c]>> :
                                w \in WordPool, c \in {0, 39}} :
          \E r \in get_remaining_words_idx(gs) :
             lastCall' = [op |-> "get_remaining_words_idx", guesses |-> gs,
                          outcome |-> r]
    /\ UNCHANGED << varsSolver, guesses, callerRemaining, varsCompare,
                    varsCodec, varsTui >>

\* solver.guess(1, &remaining_words, penalty)
QueryGuess ==
    /\ built
    /\ lastCall = NoCall
    /\ \E remaining_words \in IndexLists : \E pentalty \in Penalties :
          lastCall' = [op |-> "guess", n |-> 1,
                       remaining_words |-> remaining_words,
                       penalty |-> pentalty,
                       outcome |-> guess(1, remaining_words, pentalty)]
    /\ UNCHANGED << varsSolver, guesses, callerRemaining, varsCompare,
                    varsCodec, varsTui >>

\* solver.evalute_guess(&word, &remaining_words, None)
QueryEvaluate ==
    /\ built
    /\ lastCall = NoCall
    /\ \E w \in WordPool : \E remaining_words \in IndexLists :
          lastCall' = [op |-> "evalute_guess", word |-> w,
                       remaining_words |-> remaining_words,
                       status |-> NoneOpt,
                       outcome |-> evalute_guess(w, remaining_words, NoneOpt)]
    /\ UNCHANGED << varsSolver, guesses, callerRemaining, varsCompare,
                    varsCodec, varsTui >>

\* solver.is_valid_guess(&word)
QueryIsValidGuess ==
    /\ built
    /\ lastCall = NoCall
    /\ \E w \in WordPool :
          lastCall' = [op |-> "is_valid_guess", word |-> w,
                       outcome |-> Ok(is_valid_guess(w))]
    /\ UNCHANGED << varsSolver, guesses, callerRemaining, varsCompare,
                    varsCodec, varsTui >>

NextBuild ==
    \/ WriteCell
    \/ BuildDone
    \/ QueryRemaining
    \/ QueryGuess
    \/ QueryEvaluate
    \/ QueryIsValidGuess

SpecBuild == InitBuild /\ [][NextBuild]_vars

\* the matrix of a build that visits the cells one after the other, row by
\* row: cell number k, counted from 0, is in row k \div n and column k % n
RECURSIVE SequentialBuild(_, _, _)
SequentialBuild(ws, m, k) ==
    LET n == NWords(ws)
    IN  IF k = n * n THEN m
        ELSE SequentialBuild(ws,
                 [m EXCEPT ![k \div n][k % n] =
                     RefCode(ws[k % n], ws[k \div n])],
                 k + 1)

\* C23: the parallel build writes every cell exactly once, a write changes
\* no other cell, and whatever the order of the writes the built matrix is
\* the one of the sequential build; once built, no query of the Solver
\* changes the matrix, the priors or the vocabulary
C23_BuildIsOrderIndependent ==
    /\ [](\A i, j \in DOMAIN visits : visits[i][j] <= 1)
    /\ [](built => /\ \A i, j \in DOMAIN visits : visits[i][j] = 1
                   /\ mappings = SequentialBuild(words, zeros(words), 0))
    /\ [][~built =>
            \A i, j \in DOMAIN words :
                visits'[i][j] = visits[i][j]
                    => mappings'[i][j] = mappings[i][j]]_vars
    /\ [][built => /\ built'
                   /\ UNCHANGED << words, priors, mappings >>]_vars

\* every cell has been written, the matrix is not symmetric, and a ranking
\* query has been answered from the built Solver
C23_Witness ==
    /\ built
    /\ lastCall # NoCall
    /\ lastCall.op = "guess"
    /\ mappings[0][0] = 242
    /\ mappings[0][2] # mappings[2][0]

\* the candidate lists with the same members in another order
Reorderings(remaining_words) == IterationOrders(Range(remaining_words))

\* C26: the ranking and the evaluation do not depend on the order of the
\* candidate list: for every permutation of the candidates guess returns the
\* same words in the same order and evalute_guess the same evaluation of
\* every word, field by field
C26_CandidateOrderIrrelevant ==
    IsGuessCall(lastCall) =>
        \A other \in Reorderings(lastCall.remaining_words) :
            /\ guess(lastCall.n, other, lastCall.penalty) = lastCall.outcome
            /\ \A w \in DOMAIN words :
                  evalute_guess(words[w], other, NoneOpt)
                      = evalute_guess(words[w], lastCall.remaining_words,
                                      NoneOpt)

(***************************************************************************)
(* deep.rs: the two-level score.  deep calls recurse with no guess and the *)
(* candidates of the empty history; recurse ranks the top 20 words, scores *)
(* each of them on its own rayon worker and prints them by score.  The     *)
(* evaluation it reads carries group_probabilities, which the Solver of    *)
(* src/ does not compute: that field is taken from the ranking section of  *)
(* the specification (the nonzero buckets, each with its mass over the     *)
(* total mass of the candidates).  A probability is kept as mass and total.*)
(***************************************************************************)
\* GuessEvaluation::group_probabilities: the nonzero buckets of the word
\* against the candidates, by status code
group_probabilities(word_id, remaining_words) ==
    LET n == Len(remaining_words)
        mass(k) ==
            SumSeq([c \in 1..n |->
                       IF mappings[word_id][remaining_words[c]] = k
                       THEN priors[remaining_words[c]] ELSE 0], n)
        total == SumSeq([c \in 1..n |-> priors[remaining_words[c]]], n)
        codes == Ascending({mappings[word_id][remaining_words[c]] :
                               c \in {d \in 1..n :
                                         priors[remaining_words[d]] > 0}})
    IN  [i \in 1..Len(codes) |->
            [status |-> codes[i], mass |-> mass(codes[i]), total |-> total]]

\* solver.evalute_guess(word, remaining_words, None, false): the evaluation
\* of Solver::evalute_guess with the group probabilities
evalute_guess_4(word, remaining_words, status, two_level) ==
    LET eval == evalute_guess(word, remaining_words, status)
    IN  IF eval.kind = "panic" THEN eval
        ELSE Ok([eval |-> eval.val,
                 group_probabilities |->
                     group_probabilities(position(word), remaining_words)])

\* the closure of avg_bits for one (status, prop): the expected bits of the
\* top-ranked next guess, for every order the resolver may return the
\* candidates in
NextBits(word, status, gs) ==
    LET g == set_status(from_word(word, decode_status(0)),
                        decode_status(status))
    IN  {LET next == guess(1, r.val, 1).val[1]
         IN  evalute_guess_4(next, r.val, NoneOpt, FALSE).val.eval.expected_bits :
            r \in get_remaining_words_idx(Append(gs, g))}

\* avg_bits: the sum over the first n group probabilities of
\* prop * next_eval.expected_bits, in millionths of a bit
RECURSIVE AvgBitsUpTo(_, _, _, _)
AvgBitsUpTo(word, groups, gs, n) ==
    IF n = 0 THEN {0}
    ELSE {s + (groups[n].mass * b) \div groups[n].total :
             s \in AvgBitsUpTo(word, groups, gs, n - 1),
             b \in NextBits(word, groups[n].status, gs)}

avg_bits(evaluation, gs) ==
    AvgBitsUpTo(evaluation.eval.word, evaluation.group_probabilities, gs,
                Len(evaluation.group_probabilities))

\* the closure of recurse for one word: avg_bits + eval.expected_bits
TwoLevelScores(word, gs, remaining_words) ==
    LET evaluation == evalute_guess_4(word, remaining_words, NoneOpt, FALSE).val
    IN  {a + evaluation.eval.expected_bits : a \in avg_bits(evaluation, gs)}

InitDeep ==
    /\ words \in RankVocabularies
    /\ priors \in PriorsFor(words)
    /\ mappings = create_mappings(words)
    /\ built = TRUE
    /\ visits = <<>>
    /\ IdleCaller
    /\ IdleCompare
    /\ IdleCodec
    /\ IdleTui

\* deep, and recurse up to its ranking: solver.guess(20, remaining_words, 0.0)
Recurse ==
    /\ lastCall = NoCall
    /\ LET remaining_words == get_frequent_word_idx
           ranked == guess(20, remaining_words, 0).val
       IN  lastCall' = [op |-> "recurse",
                        guesses |-> <<>>,
                        remaining_words |-> remaining_words,
                        words |-> ranked,
                        scores |-> [i \in 1..Len(ranked) |-> NoneOpt],
                        ranking_calls |-> [i \in 1..Len(ranked) |-> 0],
                        printed |-> NoneOpt]
    /\ UNCHANGED << varsSolver, guesses, callerRemaining, varsCompare,
                    varsCodec, varsTui >>

\* words.par_iter().map(..): a worker scores one of the ranked words
ScoreWord ==
    /\ lastCall.op = "recurse"
    /\ \E i \in 1..Len(lastCall.words) :
          /\ ~lastCall.scores[i].some
          /\ \E v \in TwoLevelScores(lastCall.words[i], lastCall.guesses,
                                     lastCall.remaining_words) :
                lastCall' =
                    [lastCall EXCEPT
                        !.scores[i] = Some(v),
                        !.ranking_calls[i] =
                            Len(group_probabilities(
                                    position(lastCall.words[i]),
                                    lastCall.remaining_words))]
    /\ UNCHANGED << varsSolver, guesses, callerRemaining, varsCompare,
                    varsCodec, varsTui >>

\* res.sort_by(|(_, a), (_, b)| b.partial_cmp(a).unwrap()) and the printing
PrintScores ==
    /\ lastCall.op = "recurse"
    /\ ~lastCall.printed.some
    /\ \A i \in 1..Len(lastCall.words) : lastCall.scores[i].some
    /\ LET n == Len(lastCall.words)
           order == SortByScore(1..n, [i \in 1..n |-> lastCall.scores[i].val])
       IN  lastCall' =
               [lastCall EXCEPT
                   !.printed = Some([k \in 1..n |->
                                        << lastCall.words[order[k]],
                                           lastCall.scores[order[k]].val >>])]
    /\ UNCHANGED << varsSolver, guesses, callerRemaining, varsCompare,
                    varsCodec, varsTui >>

NextDeep == Recurse \/ ScoreWord \/ PrintScores

SpecDeep == InitDeep /\ [][NextDeep]_vars

\* the candidates of outcome k of the word of index w, in increasing order
RefBucket(w, remaining_words, k) ==
    Ascending({c \in Range(remaining_words) : mappings[w][c] = k})

\* the outcomes of the word of index w with a probability above zero
RefOutcomes(w, remaining_words) ==
    Ascending({k \in StatusCodes :
                  SumPriors(Range(RefBucket(w, remaining_words, k))) > 0})

\* the entropies of the words ranked first against a candidate list
RefBestEntropies(candidates) ==
    LET best == {x \in DOMAIN words :
                    \A y \in DOMAIN words :
                        RefScore(y, candidates, 1) <= RefScore(x, candidates, 1)}
    IN  {entropy(RefHistogram(x, candidates)) : x \in best}

\* the sums over the first n outcomes of p_k times the entropy of a word
\* ranked first against the candidates of the outcome
RECURSIVE RefLookahead(_, _, _, _)
RefLookahead(w, remaining_words, outcomes, n) ==
    IF n = 0 THEN {0}
    ELSE LET bucket == RefBucket(w, remaining_words, outcomes[n])
         IN  {s + (SumPriors(Range(bucket)) * h)
                      \div SumPriors(Range(remaining_words)) :
                 s \in RefLookahead(w, remaining_words, outcomes, n - 1),
                 h \in RefBestEntropies(bucket)}

\* C21: the two-level score of a word over the candidates is its entropy
\* plus the sum, over its outcomes of probability above zero, of the
\* probability times the entropy of the next guess ranked first against the
\* candidates of that outcome; one ranking call is made per such outcome,
\* and the scored words are the at most 20 words of the single-level ranking
C21_TwoLevelScore ==
    lastCall.op = "recurse" =>
        LET C == lastCall.remaining_words
        IN  /\ Len(lastCall.words) <= 20
            /\ lastCall.words = guess(20, C, 0).val
            /\ \A i \in 1..Len(lastCall.words) :
                  lastCall.scores[i].some =>
                      LET w == IndexOf(lastCall.words[i])
                          outcomes == RefOutcomes(w, C)
                      IN  /\ lastCall.ranking_calls[i] = Len(outcomes)
                          /\ \E look \in RefLookahead(w, C, outcomes,
                                                      Len(outcomes)) :
                                lastCall.scores[i].val
                                    = entropy(RefHistogram(w, C)) + look
====
